---- MODULE Spec2Model ----
(***************************************************************************)
(* Workspace contexts of claude-devtools: the main-process registry of     *)
(* service contexts (local + ssh), the IPC handlers that drive it, and the *)
(* renderer's context-switch orchestration (contextSlice.switchContext).   *)
(***************************************************************************)
EXTENDS Naturals, Integers, Sequences, FiniteSets, TLC

\* ------------------------------------------------------------------ bounds
\* context objects ever constructed by the main process (local included)
MaxObjects == 3
\* contexts constructed and held directly, without a registry
MaxHeld == 2
\* length up to which a run of consecutive switches is counted
MaxRun == 3
\* switchContext calls made by the renderer in one run
MaxCalls == 2
\* connectSsh and disconnectSsh calls made by the renderer in one run
MaxConnects == 2
\* largest capacity a SearchTextCache is constructed with
MaxCapacity == 2
\* set calls and get hits made on one SearchTextCache
MaxUses == 4
\* switchContext calls of a window that also connects and disconnects
MaxSwitches == 1
\* refreshSessionsInPlace calls, and togglePinSession calls, made in one run
MaxSessionCalls == 3
\* panes of the pane layout of a snapshot handed to validateSnapshot
MaxPanes == 2

\* ------------------------------------------------------------- identifiers
Hosts == {"h1", "h2"}
LocalId == "local"
NoneId == "-"

\* ssh.ts:79  const contextId = `ssh-${config.host}`
SshId(host) == "ssh-" \o host

SshIds == {SshId(h) : h \in Hosts}
Ids == {LocalId} \cup SshIds

\* ssh.ts:117  currentContextId.startsWith('ssh-')
IsSshId(id) == id \in SshIds

VARIABLES
    contexts,         \* registry: Map<string, ServiceContext> as id -> object handle
    activeContextId,  \* registry: id of the active context
    objs,             \* every ServiceContext object constructed so far, by handle
    started,          \* main process has registered and started the local context
    lastCall,         \* the last call made and how it ended
    runLen,           \* length (capped) of the current run of consecutive successful switches
    runStart          \* the contexts map when that run began

\* The SSH connection manager and the handlers' replies.
VARIABLES
    connectedHost,   \* host the connection manager is connected to, or NoneId
    response         \* what the handler that just ran returned to its caller

backVars == <<contexts, activeContextId, objs, started, lastCall, runLen, runStart,
              connectedHost, response>>

\* The renderer's store (contextSlice) and its snapshot storage.
VARIABLES
    rendererContextId,   \* store: activeContextId
    isContextSwitching,  \* store: true during a switch transition
    targetContextId,     \* store: context being switched to, or NoneId
    view,                \* store: the data shown (projects, repositoryGroups)
    snapshots,           \* contextStorage: context id -> snapshot, or NoSnapshot
    calls                \* the switchContext calls made so far, in call order

frontVars == <<rendererContextId, isContextSwitching, targetContextId, view,
               snapshots, calls>>

\* A pure function of the renderer applied to arguments of its own.
VARIABLES
    pure   \* the function applied, its arguments and what it returned

\* The renderer's connection slice, and the last connection the main process
\* keeps in its configuration.
VARIABLES
    connection,      \* store: connectionMode, connectionState, connectedHost,
                     \*        connectionError, lastSshConfig
    sshCalls,        \* the connectSsh and disconnectSsh calls made so far
    ipc,             \* save-last-connection requests sent and not yet handled
    lastConnection,  \* main process: config.ssh.lastConnection
    wire             \* handler responses on their way to the renderer, oldest first

connVars == <<connection, sshCalls, ipc, lastConnection, wire>>

\* A SearchTextCache of the main process.
VARIABLES
    cache,      \* the Map, as its entries in insertion order
    maxSize,    \* the capacity it was constructed with
    cacheLog    \* the last call made on it, its result, and when each path was last used

cacheVars == <<cache, maxSize, cacheLog>>

\* The renderer's session slice (its list and pins are in the view), and the
\* pinned sessions the main process keeps in its configuration.
VARIABLES
    projectRefreshGeneration,  \* module-level Map: project id -> latest generation
    sessionCalls,              \* refreshSessionsInPlace and togglePinSession calls so far
    pinnedSessions             \* main process: config.sessions.pinnedSessions of the project

sessVars == <<projectRefreshGeneration, sessionCalls, pinnedSessions>>

vars == <<backVars, frontVars, pure, connVars, cacheVars, sessVars>>

\* The projects a session refresh may be asked for, and the sessions pinned.
SessionProjects == {"p1", "p2"}
SessionIds == {"s1", "s2"}

\* ------------------------------------------------------- ServiceContext
\* One workspace's services.  watching: the file watcher runs; cleanup: the
\* cache's auto-cleanup interval handle is live; cached: the data cache holds
\* entries; subscribed: event forwarding is attached to its watcher.
NewContext(id) ==
    [id |-> id, disposed |-> FALSE, watching |-> FALSE, cleanup |-> FALSE,
     cached |-> FALSE, subscribed |-> FALSE]

\* start(): activates file watching and cache cleanup; logs an error and does
\* nothing on a disposed context.
start(o) ==
    IF o.disposed THEN o
    ELSE [o EXCEPT !.watching = TRUE, !.cleanup = TRUE]

\* stopFileWatcher(): pauses file watching.
stopFileWatcher(o) == [o EXCEPT !.watching = FALSE]

\* Bug variant: the watcher's disposed flag is not checked on start.
startFileWatcher_unchecked(o) == [o EXCEPT !.watching = TRUE]

\* startFileWatcher(): resumes file watching; FileWatcher.start() refuses when
\* the watcher is disposed.
startFileWatcher(o) ==
    IF o.disposed THEN o
    ELSE [o EXCEPT !.watching = TRUE]

\* Bug variant: the cleanup interval handle is not cleared.
dispose_keepsInterval(o) ==
    IF o.disposed THEN o
    ELSE [o EXCEPT !.watching = FALSE, !.cached = FALSE,
                   !.subscribed = FALSE, !.disposed = TRUE]

\* dispose(): stops the watcher (timers, maps, then removeAllListeners), clears
\* the cache, clears the cleanup interval; a repeat call returns at once.
dispose(o) ==
    IF o.disposed THEN o
    ELSE [o EXCEPT !.watching = FALSE, !.cached = FALSE, !.cleanup = FALSE,
                   !.subscribed = FALSE, !.disposed = TRUE]

\* ------------------------------------------------- ServiceContextRegistry
\* The registry's methods as functions of a registry value
\* R = [contexts, active, objs, err]; err is the error thrown, "none" if none.
RegistryValue ==
    [contexts |-> contexts, active |-> activeContextId, objs |-> objs, err |-> "none"]

has(R, id) == id \in DOMAIN R.contexts

Throw(R, e) == [R EXCEPT !.err = e]

\* Bug variant: Map.set without the existence check.
registerContext_overwrite(R, h) ==
    LET id == R.objs[h].id IN
    [R EXCEPT !.contexts =
        [x \in DOMAIN R.contexts \cup {id} |-> IF x = id THEN h ELSE R.contexts[x]]]

\* registerContext(context): throws when the id exists.
registerContext(R, h) ==
    LET id == R.objs[h].id IN
    IF has(R, id) THEN Throw(R, "DuplicateContextError")
    ELSE [R EXCEPT !.contexts =
              [x \in DOMAIN R.contexts \cup {id} |->
                  IF x = id THEN h ELSE R.contexts[x]]]

\* Bug variant: the old watcher is stopped before the target is looked up.
switch_stopsFirst(R, id) ==
    IF ~has(R, R.active) THEN Throw(R, "NotFoundError")
    ELSE LET prev == R.contexts[R.active]
             paused == [R.objs EXCEPT ![prev] = stopFileWatcher(@)]
         IN IF ~has(R, id) THEN Throw([R EXCEPT !.objs = paused], "NotFoundError")
            ELSE [R EXCEPT !.objs = [paused EXCEPT ![R.contexts[id]] = startFileWatcher(@)],
                           !.active = id]

\* Bug variant: the old watcher is left running.
switch_keepsOldRunning(R, id) ==
    IF ~has(R, id) \/ ~has(R, R.active) THEN Throw(R, "NotFoundError")
    ELSE LET cur == R.contexts[id]
         IN [R EXCEPT !.objs = [R.objs EXCEPT ![cur] = startFileWatcher(@)],
                      !.active = id]

\* Bug variant: the previous context is dropped from the map on a switch.
switch_dropsPrevious(R, id) ==
    IF ~has(R, id) \/ ~has(R, R.active) THEN Throw(R, "NotFoundError")
    ELSE LET prev == R.contexts[R.active]
             cur == R.contexts[id]
             paused == [R.objs EXCEPT ![prev] = stopFileWatcher(@)]
             resumed == [paused EXCEPT ![cur] = startFileWatcher(@)]
         IN [R EXCEPT !.objs = resumed, !.active = id,
                      !.contexts = [x \in DOMAIN R.contexts \ ({R.active} \ {id, LocalId}) |->
                                        R.contexts[x]]]

\* switch(contextId): stop the old watcher, update activeContextId, start the
\* new watcher.
switch(R, id) ==
    IF ~has(R, id) \/ ~has(R, R.active) THEN Throw(R, "NotFoundError")
    ELSE LET prev == R.contexts[R.active]
             cur == R.contexts[id]
             paused == [R.objs EXCEPT ![prev] = stopFileWatcher(@)]
             resumed == [paused EXCEPT ![cur] = startFileWatcher(@)]
         IN [R EXCEPT !.objs = resumed, !.active = id]

\* Bug variant: the new watcher is started before the old one is stopped.
switchSteps_resumesFirst(R, id) ==
    IF ~has(R, id) \/ ~has(R, R.active) THEN <<Throw(R, "NotFoundError")>>
    ELSE LET prev == R.contexts[R.active]
             cur == R.contexts[id]
             R1 == [R EXCEPT !.objs = [R.objs EXCEPT ![cur] = startFileWatcher(@)]]
             R2 == [R1 EXCEPT !.active = id]
             R3 == [R2 EXCEPT !.objs = [R2.objs EXCEPT ![prev] = stopFileWatcher(@)]]
         IN <<R1, R2, R3>>

\* switch(contextId) statement by statement: the registry after the old
\* watcher is stopped, after activeContextId is updated, and after the new
\* watcher is started; the registry as it was, with the error, on a throw.
switchSteps(R, id) ==
    IF ~has(R, id) \/ ~has(R, R.active) THEN <<Throw(R, "NotFoundError")>>
    ELSE LET prev == R.contexts[R.active]
             cur == R.contexts[id]
             R1 == [R EXCEPT !.objs = [R.objs EXCEPT ![prev] = stopFileWatcher(@)]]
             R2 == [R1 EXCEPT !.active = id]
             R3 == [R2 EXCEPT !.objs = [R2.objs EXCEPT ![cur] = startFileWatcher(@)]]
         IN <<R1, R2, R3>>

\* Bug variant: no guard for the permanent local context.
destroy_localToo(R, id) ==
    IF ~has(R, id) THEN Throw(R, "NotFoundError")
    ELSE LET R1 == IF R.active = id /\ id # LocalId THEN switch(R, LocalId) ELSE R
             h == R.contexts[id]
         IN [R1 EXCEPT !.objs = [R1.objs EXCEPT ![h] = dispose(@)],
                       !.contexts = [x \in DOMAIN R1.contexts \ {id} |-> R1.contexts[x]]]

\* Bug variant: an active context is disposed and removed with no switch.
destroy_noSwitch(R, id) ==
    IF id = LocalId THEN Throw(R, "PermanentContextError")
    ELSE IF ~has(R, id) THEN Throw(R, "NotFoundError")
    ELSE [R EXCEPT !.objs = [R.objs EXCEPT ![R.contexts[id]] = dispose(@)],
                   !.contexts = [x \in DOMAIN R.contexts \ {id} |-> R.contexts[x]]]

\* Bug variant: activeContextId is reset to 'local' without calling switch,
\* so the local watcher is not started again.
destroy_assignsActive(R, id) ==
    IF id = LocalId THEN Throw(R, "PermanentContextError")
    ELSE IF ~has(R, id) THEN Throw(R, "NotFoundError")
    ELSE [R EXCEPT !.objs = [R.objs EXCEPT ![R.contexts[id]] = dispose(@)],
                   !.contexts = [x \in DOMAIN R.contexts \ {id} |-> R.contexts[x]],
                   !.active = IF R.active = id THEN LocalId ELSE R.active]

\* destroy(contextId): refuses 'local'; disposes the context and removes it;
\* an active context is left for 'local'.
destroy(R, id) ==
    IF id = LocalId THEN Throw(R, "PermanentContextError")
    ELSE IF ~has(R, id) THEN Throw(R, "NotFoundError")
    ELSE LET R1 == IF R.active = id THEN switch(R, LocalId) ELSE R
             h == R.contexts[id]
         IN IF R1.err # "none" THEN R1
            ELSE [R1 EXCEPT !.objs = [R1.objs EXCEPT ![h] = dispose(@)],
                            !.contexts = [x \in DOMAIN R1.contexts \ {id} |->
                                              R1.contexts[x]]]

\* onContextRewire(context): file watcher events are forwarded from this
\* context's watcher and from no other.
rewire(R, h) ==
    [R EXCEPT !.objs = [k \in DOMAIN R.objs |->
                           [R.objs[k] EXCEPT !.subscribed = (k = h)]]]

\* ------------------------------------------------------------- bookkeeping
\* op: the call; id: its context id; h: the context object it acted on (0: none);
\* prev: the active id before a registry call, "live"/"disposed" before a call
\* on a context; err: the error thrown, "none" if it returned.
Call(op, id, h, prev, err) == [op |-> op, id |-> id, h |-> h, prev |-> prev, err |-> err]

EmptyMap == [x \in {} |-> 0]

Commit(R) ==
    /\ contexts' = R.contexts
    /\ activeContextId' = R.active
    /\ objs' = R.objs

ResetRun == runLen' = 0 /\ runStart' = EmptyMap

ExtendRun ==
    /\ runLen' = IF runLen < MaxRun THEN runLen + 1 ELSE MaxRun
    /\ runStart' = IF runLen = 0 THEN contexts ELSE runStart

Handles == DOMAIN objs

HandleOf(id) == IF id \in DOMAIN contexts THEN contexts[id] ELSE 0

Liveness(o) == IF o.disposed THEN "disposed" ELSE "live"

\* ------------------------------------------------------------------ Init
\* The registry's constructor is empty and activeContextId defaults to
\* 'local'; the local context is registered by the main process afterwards.
\* No handler has just returned.
NoResponse == [none |-> TRUE]

\* Bug variant: the handler lets the exception through.
Respond_rethrows(R, data) ==
    IF R.err = "none" THEN [success |-> TRUE, data |-> data]
    ELSE [threw |-> R.err]

\* try { ...; return {success: true, data} }
\* catch (err) { return {success: false, error: message} }
Respond(R, data) ==
    IF R.err = "none" THEN [success |-> TRUE, data |-> data]
    ELSE [success |-> FALSE, error |-> R.err]

InitRegistry ==
    /\ contexts = EmptyMap
    /\ activeContextId = LocalId
    /\ objs = <<>>
    /\ started = FALSE
    /\ lastCall = Call("none", NoneId, 0, NoneId, "none")
    /\ runLen = 0
    /\ runStart = EmptyMap
    /\ connectedHost = NoneId
    /\ response = NoResponse

\* ---------------------------------------------------- renderer: contextSlice
ContextIds == {LocalId, SshId("h1")}
ProjectSets == {{}, {"p1"}}
GroupSets == {{}, {"g1"}}
NoSnapshot == [none |-> TRUE]

\* rg.worktrees.map(w => w.id) of each repository group
WorktreeIds(groups) == {"w-" \o g : g \in groups}

\* A tab; projectId is NoneId when the tab has none.
Tab(id, type, projectId) == [id |-> id, type |-> type, projectId |-> projectId]
SessionTab == Tab("t1", "session", "p1")
DashboardTab == Tab("t2", "dashboard", NoneId)

DefaultPane ==
    [id |-> "pane-default", tabs |-> <<>>, activeTabId |-> NoneId,
     selectedTabIds |-> <<>>, widthFraction |-> 1]

\* getFullResetState(): selections, pagination and the transient flags back
\* to their initial values.
getFullResetState ==
    [selectedProjectId |-> NoneId, selectedRepositoryId |-> NoneId,
     selectedWorktreeId |-> NoneId, selectedSessionId |-> NoneId,
     sessionsCursor |-> NoneId, sessionsHasMore |-> FALSE,
     sessionsTotalCount |-> 0, projectsLoading |-> FALSE,
     projectsError |-> NoneId]

\* {...a, ...b}: the fields of b over those of a
Spread(a, b) ==
    [f \in DOMAIN a \cup DOMAIN b |-> IF f \in DOMAIN b THEN b[f] ELSE a[f]]

\* getEmptyContextState()
getEmptyContextState ==
    Spread(getFullResetState,
           [projects |-> {}, repositoryGroups |-> {}, sessions |-> <<>>,
            notifications |-> <<>>, unreadCount |-> 0, openTabs |-> <<>>,
            activeTabId |-> NoneId, selectedTabIds |-> <<>>,
            activeProjectId |-> NoneId,
            paneLayout |-> [panes |-> <<DefaultPane>>,
                            focusedPaneId |-> "pane-default"]])

\* Bug variant: the whole state is stored, transient flags included.
captureSnapshot_transientToo(state, contextId) ==
    Spread(state, [metadata |-> [contextId |-> contextId, version |-> 1]])

\* captureSnapshot(state, contextId): the data, tab/pane and UI fields, and
\* the metadata (capturedAt is the storage's business, see loadSnapshot).
captureSnapshot(state, contextId) ==
    [projects |-> state.projects,
     selectedProjectId |-> state.selectedProjectId,
     repositoryGroups |-> state.repositoryGroups,
     selectedRepositoryId |-> state.selectedRepositoryId,
     selectedWorktreeId |-> state.selectedWorktreeId,
     viewMode |-> state.viewMode,
     sessions |-> state.sessions,
     selectedSessionId |-> state.selectedSessionId,
     sessionsCursor |-> state.sessionsCursor,
     sessionsHasMore |-> state.sessionsHasMore,
     sessionsTotalCount |-> state.sessionsTotalCount,
     pinnedSessionIds |-> state.pinnedSessionIds,
     notifications |-> state.notifications,
     unreadCount |-> state.unreadCount,
     openTabs |-> state.openTabs,
     activeTabId |-> state.activeTabId,
     selectedTabIds |-> state.selectedTabIds,
     activeProjectId |-> state.activeProjectId,
     paneLayout |-> state.paneLayout,
     sidebarCollapsed |-> state.sidebarCollapsed,
     metadata |-> [contextId |-> contextId, version |-> 1]]

\* Bug variant: every tab is kept.
TabIsValid_keepsAll(tab, validProjectIds, validWorktreeIds) == TRUE

\* tabs.filter(...): session tabs of a project that is gone are dropped
TabIsValid(tab, validProjectIds, validWorktreeIds) ==
    IF tab.type = "session" /\ tab.projectId # NoneId
    THEN tab.projectId \in validProjectIds \/ tab.projectId \in validWorktreeIds
    ELSE TRUE

FilterTabs(tabs, validProjectIds, validWorktreeIds) ==
    SelectSeq(tabs, LAMBDA tab : TabIsValid(tab, validProjectIds, validWorktreeIds))

TabIdsOf(tabs) == {tabs[i].id : i \in DOMAIN tabs}

\* Bug variant: no fallback to the first tab.
FirstTabId_none(tabs) == NoneId

\* tabs[0]?.id ?? null
FirstTabId(tabs) == IF tabs = <<>> THEN NoneId ELSE tabs[1].id

\* lines 113-130: one pane of the snapshot, validated
ValidatePane(pane, validProjectIds, validWorktreeIds) ==
    LET paneTabs == FilterTabs(pane.tabs, validProjectIds, validWorktreeIds)
    IN [pane EXCEPT
          !.tabs = paneTabs,
          !.activeTabId = IF pane.activeTabId \in TabIdsOf(paneTabs)
                          THEN pane.activeTabId ELSE FirstTabId(paneTabs),
          !.selectedTabIds =
              SelectSeq(pane.selectedTabIds, LAMBDA id : id \in TabIdsOf(paneTabs))]

\* lines 134-145: at least one pane
FinalPanes(validatedPanes) ==
    IF Len(validatedPanes) > 0 THEN validatedPanes ELSE <<DefaultPane>>

\* Bug variant: the snapshot's focused pane is kept whether it survived or not.
FocusedPaneId_keepsStale(finalPanes, focusedPaneId) == focusedPaneId

\* lines 174-176: the focused pane if it is still there, else the first pane
FocusedPaneId(finalPanes, focusedPaneId) ==
    IF \E i \in DOMAIN finalPanes : finalPanes[i].id = focusedPaneId
    THEN focusedPaneId
    ELSE finalPanes[1].id

\* validateSnapshot(snapshot, freshProjects, freshRepoGroups)
validateSnapshot(snapshot, freshProjects, freshRepoGroups) ==
    LET validProjectIds == freshProjects
        validWorktreeIds == WorktreeIds(freshRepoGroups)
        selectedProjectId ==
            IF snapshot.selectedProjectId # NoneId
               /\ snapshot.selectedProjectId \in validProjectIds
            THEN snapshot.selectedProjectId ELSE NoneId
        selectedWorktreeId ==
            IF snapshot.selectedWorktreeId # NoneId
               /\ snapshot.selectedWorktreeId \in validWorktreeIds
            THEN snapshot.selectedWorktreeId ELSE NoneId
        validTabs == FilterTabs(snapshot.openTabs, validProjectIds, validWorktreeIds)
        activeTabId ==
            IF snapshot.activeTabId # NoneId
               /\ snapshot.activeTabId \notin TabIdsOf(validTabs)
            THEN FirstTabId(validTabs) ELSE snapshot.activeTabId
        mapped == [i \in DOMAIN snapshot.paneLayout.panes |->
                     ValidatePane(snapshot.paneLayout.panes[i],
                                  validProjectIds, validWorktreeIds)]
        validatedPanes == SelectSeq(mapped, LAMBDA pane : Len(pane.tabs) > 0)
        finalPanes == FinalPanes(validatedPanes)
    IN [projects |-> freshProjects,
        selectedProjectId |-> selectedProjectId,
        repositoryGroups |-> freshRepoGroups,
        selectedRepositoryId |-> snapshot.selectedRepositoryId,
        selectedWorktreeId |-> selectedWorktreeId,
        viewMode |-> snapshot.viewMode,
        sessions |-> snapshot.sessions,
        selectedSessionId |-> snapshot.selectedSessionId,
        sessionsCursor |-> snapshot.sessionsCursor,
        sessionsHasMore |-> snapshot.sessionsHasMore,
        sessionsTotalCount |-> snapshot.sessionsTotalCount,
        pinnedSessionIds |-> snapshot.pinnedSessionIds,
        notifications |-> snapshot.notifications,
        unreadCount |-> snapshot.unreadCount,
        openTabs |-> validTabs,
        activeTabId |-> activeTabId,
        selectedTabIds |->
            SelectSeq(snapshot.selectedTabIds, LAMBDA id : id \in TabIdsOf(validTabs)),
        activeProjectId |->
            IF snapshot.activeProjectId # NoneId
               /\ (\/ snapshot.activeProjectId \in validProjectIds
                   \/ snapshot.activeProjectId \in validWorktreeIds)
            THEN snapshot.activeProjectId ELSE selectedProjectId,
        paneLayout |->
            [panes |-> finalPanes,
             focusedPaneId |->
                 FocusedPaneId(finalPanes, snapshot.paneLayout.focusedPaneId)],
        sidebarCollapsed |-> snapshot.sidebarCollapsed]

\* The store's fields a step of switchContext reads and sets.
StoreValue ==
    [active |-> rendererContextId, switching |-> isContextSwitching,
     target |-> targetContextId, view |-> view]

SetStore(F) ==
    /\ rendererContextId' = F.active
    /\ isContextSwitching' = F.switching
    /\ targetContextId' = F.target
    /\ view' = F.view

\* lines 305-324: the fields of the snapshot that Step 2 puts in the store
SnapshotApplied(targetSnapshot) ==
    [projects |-> targetSnapshot.projects,
     repositoryGroups |-> targetSnapshot.repositoryGroups,
     selectedProjectId |-> targetSnapshot.selectedProjectId,
     selectedRepositoryId |-> targetSnapshot.selectedRepositoryId,
     selectedWorktreeId |-> targetSnapshot.selectedWorktreeId,
     viewMode |-> targetSnapshot.viewMode,
     sessions |-> targetSnapshot.sessions,
     selectedSessionId |-> targetSnapshot.selectedSessionId,
     sessionsCursor |-> targetSnapshot.sessionsCursor,
     sessionsHasMore |-> targetSnapshot.sessionsHasMore,
     sessionsTotalCount |-> targetSnapshot.sessionsTotalCount,
     pinnedSessionIds |-> targetSnapshot.pinnedSessionIds,
     notifications |-> targetSnapshot.notifications,
     unreadCount |-> targetSnapshot.unreadCount,
     openTabs |-> targetSnapshot.openTabs,
     activeTabId |-> targetSnapshot.activeTabId,
     selectedTabIds |-> targetSnapshot.selectedTabIds,
     activeProjectId |-> targetSnapshot.activeProjectId,
     paneLayout |-> targetSnapshot.paneLayout,
     sidebarCollapsed |-> targetSnapshot.sidebarCollapsed]

\* Bug variant: the snapshot is shown but the switch stays open until the
\* background fetch is back.
applySnapshot_keepsSwitching(F, targetSnapshot, target) ==
    IF targetSnapshot = NoSnapshot THEN F
    ELSE [F EXCEPT !.view = Spread(F.view, SnapshotApplied(targetSnapshot))]

\* Step 2: a cached snapshot is applied at once and the switch finalized.
applySnapshot(F, targetSnapshot, target) ==
    IF targetSnapshot = NoSnapshot THEN F
    ELSE [active |-> target, switching |-> FALSE, target |-> NoneId,
          view |-> Spread(F.view, SnapshotApplied(targetSnapshot))]

\* lines 344-348: the fetch came back empty although the snapshot had data
EmptyFetchGuard(targetSnapshot, freshProjects, freshRepoGroups) ==
    LET snapshotHadData ==
            targetSnapshot.projects # {} \/ targetSnapshot.repositoryGroups # {}
        freshIsEmpty == freshProjects = {} /\ freshRepoGroups = {}
    IN snapshotHadData /\ freshIsEmpty

\* Bug variant: the fetched lists are validated in whatever they hold.
applyFresh_noEmptyGuard(F, targetSnapshot, freshProjects, freshRepoGroups, target) ==
    IF targetSnapshot # NoSnapshot
    THEN [F EXCEPT !.view =
             Spread(F.view,
                    validateSnapshot(targetSnapshot, freshProjects, freshRepoGroups))]
    ELSE [active |-> target, switching |-> FALSE, target |-> NoneId,
          view |-> Spread(F.view,
                          Spread(getEmptyContextState,
                                 [projects |-> freshProjects,
                                  repositoryGroups |-> freshRepoGroups]))]

\* Bug variant: a refetch is dropped when its target is no longer the active
\* context.
applyFresh_versionGuarded(F, targetSnapshot, freshProjects, freshRepoGroups, target) ==
    IF targetSnapshot # NoSnapshot
    THEN IF EmptyFetchGuard(targetSnapshot, freshProjects, freshRepoGroups)
            \/ F.active # target
         THEN F
         ELSE [F EXCEPT !.view =
                  Spread(F.view,
                         validateSnapshot(targetSnapshot, freshProjects,
                                          freshRepoGroups))]
    ELSE [active |-> target, switching |-> FALSE, target |-> NoneId,
          view |-> Spread(F.view,
                          Spread(getEmptyContextState,
                                 [projects |-> freshProjects,
                                  repositoryGroups |-> freshRepoGroups]))]

\* Step 3, fetch resolved: keep the snapshot when the fetch came back empty
\* and the snapshot had data, else validate; with no snapshot, the empty
\* state with the fresh lists, finalized.
applyFresh(F, targetSnapshot, freshProjects, freshRepoGroups, target) ==
    IF targetSnapshot # NoSnapshot
    THEN IF EmptyFetchGuard(targetSnapshot, freshProjects, freshRepoGroups) THEN F
         ELSE [F EXCEPT !.view =
                  Spread(F.view,
                         validateSnapshot(targetSnapshot, freshProjects,
                                          freshRepoGroups))]
    ELSE [active |-> target, switching |-> FALSE, target |-> NoneId,
          view |-> Spread(F.view,
                          Spread(getEmptyContextState,
                                 [projects |-> freshProjects,
                                  repositoryGroups |-> freshRepoGroups]))]

\* Bug variant: the failed fetch of a first visit is only logged.
fetchFailed_onlyLogs(F, targetSnapshot, target) == F

\* Bug variant: a failed refresh always falls back to the empty state.
fetchFailed_alwaysResets(F, targetSnapshot, target) ==
    [active |-> target, switching |-> FALSE, target |-> NoneId,
     view |-> Spread(F.view, getEmptyContextState)]

\* Bug variant: the first visit is finalized without resetting the view.
fetchFailed_keepsOutgoing(F, targetSnapshot, target) ==
    IF targetSnapshot = NoSnapshot
    THEN [active |-> target, switching |-> FALSE, target |-> NoneId,
          view |-> F.view]
    ELSE F

\* Step 3, fetch rejected (or validation threw): with no snapshot, finalize
\* with the empty state; with one, keep what is shown.
fetchFailed(F, targetSnapshot, target) ==
    IF targetSnapshot = NoSnapshot
    THEN [active |-> target, switching |-> FALSE, target |-> NoneId,
          view |-> Spread(F.view, getEmptyContextState)]
    ELSE F

\* Bug variant: the outer catch also resets the view.
switchFailed_resets(F) ==
    [F EXCEPT !.switching = FALSE, !.target = NoneId,
              !.view = Spread(F.view, getEmptyContextState)]

\* The outer catch: the flag is cleared, nothing else is touched.
switchFailed(F) == [F EXCEPT !.switching = FALSE, !.target = NoneId]

\* The store of a window that has just opened: nothing loaded yet.
InitialView ==
    Spread(getEmptyContextState,
           [viewMode |-> "grouped", pinnedSessionIds |-> <<>>,
            sidebarCollapsed |-> FALSE])

\* The store of a window in use: a project listed and selected, its session
\* open in a tab of the default pane, a fetch under way.
PopulatedView ==
    Spread(InitialView,
           [projects |-> {"p1"}, selectedProjectId |-> "p1",
            activeProjectId |-> "p1", sessions |-> <<"s1">>,
            sessionsTotalCount |-> 1, unreadCount |-> 1,
            notifications |-> <<"n1">>, sidebarCollapsed |-> TRUE,
            openTabs |-> <<SessionTab, DashboardTab>>, activeTabId |-> "t1",
            selectedTabIds |-> <<"t1">>, projectsLoading |-> TRUE,
            paneLayout |->
                [panes |-> <<[DefaultPane EXCEPT
                                !.tabs = <<SessionTab, DashboardTab>>,
                                !.activeTabId = "t1",
                                !.selectedTabIds = <<"t1">>]>>,
                 focusedPaneId |-> "pane-default"]])

InitialViews == {InitialView, PopulatedView}

InitStore ==
    /\ rendererContextId = LocalId
    /\ isContextSwitching = FALSE
    /\ targetContextId = NoneId
    /\ snapshots = [id \in ContextIds |-> NoSnapshot]
    /\ calls = <<>>

\* No connection profile.
NoConfig == [none |-> TRUE]

\* connectionSlice.ts:57-62, and a configuration with no last connection
InitConnection ==
    /\ connection = [mode |-> "local", state |-> "disconnected", host |-> NoneId,
                     error |-> NoneId, lastSshConfig |-> NoConfig]
    /\ sshCalls = <<>>
    /\ ipc = <<>>
    /\ lastConnection = NoConfig
    /\ wire = <<>>

\* connectionSlice.ts:240: an empty generation map; no call made, nothing pinned.
InitSessions ==
    /\ projectRefreshGeneration = [p \in SessionProjects |-> 0]
    /\ sessionCalls = <<>>
    /\ pinnedSessions = {}

\* No call made on the cache yet.
NoCacheCall ==
    [op |-> "none", path |-> NoneId, hit |-> FALSE, before |-> <<>>,
     clock |-> 0, lastUse |-> <<>>, lastSet |-> <<>>, usedBefore |-> <<>>]

\* new SearchTextCache(): the default capacity stands for any fixed one
InitCache ==
    /\ cache = <<>>
    /\ maxSize = 1
    /\ cacheLog = NoCacheCall

\* No pure function has been applied.
NotApplied == [fn |-> "none"]

InitPure == pure = NotApplied

InitRenderer ==
    InitStore /\ InitPure /\ InitConnection /\ InitSessions /\ InitCache /\ view = InitialView

\* The window as switchContext may find it: just opened, or in use.
InitWindow ==
    /\ InitRegistry /\ InitStore /\ InitPure /\ InitConnection /\ InitSessions /\ InitCache
    /\ view \in InitialViews

Init == InitRegistry /\ InitRenderer

\* Main-process startup: construct the local context, register it, start it,
\* wire its watcher's events.
Startup ==
    /\ ~started
    /\ objs = <<>>
    /\ LET R0 == [RegistryValue EXCEPT !.objs = Append(objs, NewContext(LocalId))]
           h == Len(objs) + 1
           R1 == registerContext(R0, h)
           R2 == [R1 EXCEPT !.objs = [R1.objs EXCEPT ![h] = start(@)]]
           R3 == rewire(R2, h)
       IN /\ Commit(R3)
          /\ lastCall' = Call("startup", LocalId, h, activeContextId, R1.err)
    /\ started' = TRUE
    /\ ResetRun
    /\ response' = NoResponse
    /\ UNCHANGED connectedHost
    /\ UNCHANGED <<frontVars, pure, connVars, cacheVars, sessVars>>

\* --------------------------------------------- direct calls on the registry
\* registry.registerContext(new ServiceContext({id, ...})).  A context that
\* was refused is dropped by its caller.
RegisterContext(id) ==
    /\ started
    /\ Len(objs) < MaxObjects
    /\ LET h == Len(objs) + 1
           R0 == [RegistryValue EXCEPT !.objs = Append(objs, NewContext(id))]
           R1 == registerContext(R0, h)
       IN /\ Commit([R1 EXCEPT !.objs = IF R1.err = "none" THEN R1.objs ELSE objs])
          /\ lastCall' = Call("registerContext", id, IF R1.err = "none" THEN h ELSE 0,
                              activeContextId, R1.err)
    /\ ResetRun
    /\ UNCHANGED started
    /\ response' = NoResponse
    /\ UNCHANGED connectedHost
    /\ UNCHANGED <<frontVars, pure, connVars, cacheVars, sessVars>>

Switch(id) ==
    /\ started
    /\ LET R == switch(RegistryValue, id)
       IN /\ Commit(R)
          /\ lastCall' = Call("switch", id, HandleOf(id), activeContextId, R.err)
          /\ IF R.err = "none" THEN ExtendRun ELSE ResetRun
    /\ UNCHANGED started
    /\ response' = NoResponse
    /\ UNCHANGED connectedHost
    /\ UNCHANGED <<frontVars, pure, connVars, cacheVars, sessVars>>

\* destroy of an id that is neither 'local' nor registered is not specified
\* and no caller does it: the ids drawn are 'local' and the registered ones.
Destroy(id) ==
    /\ started
    /\ id = LocalId \/ id \in DOMAIN contexts
    /\ LET R == destroy(RegistryValue, id)
       IN /\ Commit(R)
          /\ lastCall' = Call("destroy", id, HandleOf(id), activeContextId, R.err)
    /\ ResetRun
    /\ UNCHANGED started
    /\ response' = NoResponse
    /\ UNCHANGED connectedHost
    /\ UNCHANGED <<frontVars, pure, connVars, cacheVars, sessVars>>

\* ------------------------------------ direct calls on a ServiceContext
\* new ServiceContext({id: 'local', ...}) held by its creator (standalone.ts).
Construct ==
    /\ ~started
    /\ Len(objs) < MaxHeld
    /\ objs' = Append(objs, NewContext(LocalId))
    /\ lastCall' = Call("new", LocalId, Len(objs) + 1, "live", "none")
    /\ UNCHANGED <<contexts, activeContextId, started, runLen, runStart>>
    /\ response' = NoResponse
    /\ UNCHANGED connectedHost
    /\ UNCHANGED <<frontVars, pure, connVars, cacheVars, sessVars>>

\* start() is called once on a fresh context (ssh.ts:97, standalone.ts:111);
\* a call on a disposed context is the rejected case.
Start(h) ==
    /\ objs[h].disposed \/ ~objs[h].cleanup
    /\ objs' = [objs EXCEPT ![h] = start(@)]
    /\ lastCall' = Call("start", objs[h].id, h, Liveness(objs[h]), "none")
    /\ ResetRun
    /\ UNCHANGED <<contexts, activeContextId, started>>
    /\ response' = NoResponse
    /\ UNCHANGED connectedHost
    /\ UNCHANGED <<frontVars, pure, connVars, cacheVars, sessVars>>

Pause(h) ==
    /\ objs' = [objs EXCEPT ![h] = stopFileWatcher(@)]
    /\ lastCall' = Call("stopFileWatcher", objs[h].id, h, Liveness(objs[h]), "none")
    /\ ResetRun
    /\ UNCHANGED <<contexts, activeContextId, started>>
    /\ response' = NoResponse
    /\ UNCHANGED connectedHost
    /\ UNCHANGED <<frontVars, pure, connVars, cacheVars, sessVars>>

Resume(h) ==
    /\ objs' = [objs EXCEPT ![h] = startFileWatcher(@)]
    /\ lastCall' = Call("startFileWatcher", objs[h].id, h, Liveness(objs[h]), "none")
    /\ ResetRun
    /\ UNCHANGED <<contexts, activeContextId, started>>
    /\ response' = NoResponse
    /\ UNCHANGED connectedHost
    /\ UNCHANGED <<frontVars, pure, connVars, cacheVars, sessVars>>

Dispose(h) ==
    /\ objs' = [objs EXCEPT ![h] = dispose(@)]
    /\ lastCall' = Call("dispose", objs[h].id, h, Liveness(objs[h]), "none")
    /\ ResetRun
    /\ UNCHANGED <<contexts, activeContextId, started>>
    /\ response' = NoResponse
    /\ UNCHANGED connectedHost
    /\ UNCHANGED <<frontVars, pure, connVars, cacheVars, sessVars>>

\* fileWatcher.on('file-change', ...) / on('todo-change', ...) on a context
\* held directly (standalone.ts:121-126).
Subscribe(h) ==
    /\ ~objs[h].disposed
    /\ ~objs[h].subscribed
    /\ objs' = [objs EXCEPT ![h].subscribed = TRUE]
    /\ lastCall' = Call("on", objs[h].id, h, Liveness(objs[h]), "none")
    /\ ResetRun
    /\ UNCHANGED <<contexts, activeContextId, started>>
    /\ response' = NoResponse
    /\ UNCHANGED connectedHost
    /\ UNCHANGED <<frontVars, pure, connVars, cacheVars, sessVars>>

\* A request served through a context stores its result in that context's
\* data cache (the cache is disabled once disposed).
CacheFill(h) ==
    /\ ~objs[h].disposed
    /\ ~objs[h].cached
    /\ objs' = [objs EXCEPT ![h].cached = TRUE]
    /\ lastCall' = Call("cache", objs[h].id, h, Liveness(objs[h]), "none")
    /\ ResetRun
    /\ UNCHANGED <<contexts, activeContextId, started>>
    /\ response' = NoResponse
    /\ UNCHANGED connectedHost
    /\ UNCHANGED <<frontVars, pure, connVars, cacheVars, sessVars>>

\* Requests of the renderer are served by the active context.
CacheFillActive ==
    /\ started
    /\ has(RegistryValue, activeContextId)
    /\ CacheFill(contexts[activeContextId])

\* ------------------------------------------------------------ IPC handlers
\* Bug variant: the registry is switched and forwarding is left where it was.
ContextSwitchBody_noRewire(R, contextId) == switch(R, contextId)

\* context:switch
ContextSwitchBody(R, contextId) ==
    LET R1 == switch(R, contextId)
    IN IF R1.err # "none" THEN R1
       ELSE rewire(R1, R1.contexts[contextId])

ContextSwitchHandler(id) ==
    /\ started
    /\ LET R == ContextSwitchBody(RegistryValue, id)
       IN /\ Commit(R)
          /\ lastCall' = Call("context:switch", id, HandleOf(id), activeContextId, R.err)
          /\ response' = Respond(R, [contextId |-> id])
          /\ IF R.err = "none" THEN ExtendRun ELSE ResetRun
    /\ UNCHANGED <<started, connectedHost>>
    /\ UNCHANGED <<frontVars, pure, connVars, cacheVars, sessVars>>

\* ssh:connect, connectionManager.connect(config) rejected: the catch returns
\* {success: false} and the registry is not touched.
SshConnectFail(host) ==
    /\ started
    /\ lastCall' = Call("ssh:connect", SshId(host), 0, activeContextId, "TransportError")
    /\ response' = Respond(Throw(RegistryValue, "TransportError"), NoneId)
    /\ connectedHost' \in {connectedHost, NoneId}
    /\ ResetRun
    /\ UNCHANGED <<contexts, activeContextId, objs, started>>
    /\ UNCHANGED <<frontVars, pure, connVars, cacheVars, sessVars>>

\* ssh:connect, after connect() resolved: destroy an existing context of the
\* same id, construct, register, start, switch, rewire.  A throw anywhere
\* leaves what was done before it and returns {success: false}.
\* Bug variant: the context of an earlier connection is left in place.
SshConnectSteps_noDestroy(R, host) ==
    LET contextId == SshId(host)
        h == Len(R.objs) + 1
        R2 == [R EXCEPT !.objs = Append(R.objs, NewContext(contextId))]
        R3 == registerContext(R2, h)
        R4 == [R3 EXCEPT !.objs = [R3.objs EXCEPT ![h] = start(@)]]
        R5 == switch(R4, contextId)
        R6 == rewire(R5, h)
    IN IF R3.err # "none" THEN <<R, R2, R3>>
       ELSE IF R5.err # "none" THEN <<R, R2, R3, R4, R5>>
       ELSE <<R, R2, R3, R4, R5, R6>>

\* The registry after each statement of lines 79-103, up to the one that threw.
SshConnectSteps(R, host) ==
    LET contextId == SshId(host)
        R1 == IF has(R, contextId) THEN destroy(R, contextId) ELSE R
        h == Len(R1.objs) + 1
        R2 == [R1 EXCEPT !.objs = Append(R1.objs, NewContext(contextId))]
        R3 == registerContext(R2, h)
        R4 == [R3 EXCEPT !.objs = [R3.objs EXCEPT ![h] = start(@)]]
        R5 == switch(R4, contextId)
        R6 == rewire(R5, h)
    IN IF R1.err # "none" THEN <<R1>>
       ELSE IF R3.err # "none" THEN <<R1, R2, R3>>
       ELSE IF R5.err # "none" THEN <<R1, R2, R3, R4, R5>>
       ELSE <<R1, R2, R3, R4, R5, R6>>

SshConnectBody(R, host) ==
    LET steps == SshConnectSteps(R, host)
    IN steps[Len(steps)]

SshConnectOk(host) ==
    /\ started
    /\ Len(objs) < MaxObjects
    /\ LET R == SshConnectBody(RegistryValue, host)
       IN /\ Commit(R)
          /\ lastCall' = Call("ssh:connect", SshId(host), Len(objs) + 1,
                              activeContextId, R.err)
          /\ response' = Respond(R, host)
    /\ connectedHost' = host
    /\ ResetRun
    /\ UNCHANGED started
    /\ UNCHANGED <<frontVars, pure, connVars, cacheVars, sessVars>>

\* ssh:disconnect
\* The registry after each statement of lines 116-132, up to the one that threw.
SshDisconnectSteps(R) ==
    LET currentContextId == R.active
        R1 == switch(R, LocalId)
        R2 == destroy(R1, currentContextId)
        R3 == rewire(R2, R2.contexts[R2.active])
    IN IF ~IsSshId(currentContextId) THEN <<R>>
       ELSE IF R1.err # "none" THEN <<R1>>
       ELSE IF R2.err # "none" THEN <<R1, R2>>
       ELSE <<R1, R2, R3>>

SshDisconnectBody(R) ==
    LET steps == SshDisconnectSteps(R)
    IN steps[Len(steps)]

SshDisconnect ==
    /\ started
    /\ LET R == SshDisconnectBody(RegistryValue)
       IN /\ Commit(R)
          /\ lastCall' = Call("ssh:disconnect", activeContextId,
                              HandleOf(activeContextId), activeContextId, R.err)
          /\ response' = Respond(R, NoneId)
    /\ connectedHost' = NoneId
    /\ ResetRun
    /\ UNCHANGED started
    /\ UNCHANGED <<frontVars, pure, connVars, cacheVars, sessVars>>

\* -------------------------------------------------------------------- Next
\* The main process: the registry, driven directly and through the handlers.
Next ==
    \/ Startup
    \/ \E id \in Ids : RegisterContext(id)
    \/ \E id \in Ids : Switch(id)
    \/ \E id \in Ids : Destroy(id)
    \/ \E h \in Handles : started /\ Start(h)
    \/ CacheFillActive
    \/ \E id \in Ids : ContextSwitchHandler(id)
    \/ \E host \in Hosts : SshConnectFail(host)
    \/ \E host \in Hosts : SshConnectOk(host)
    \/ SshDisconnect

Spec == Init /\ [][Next]_vars

\* ------------------------------------------- handlers only, and their faults
\* context:list
ContextListHandler(throws) ==
    /\ started
    /\ LET R == IF throws THEN Throw(RegistryValue, "RegistryError") ELSE RegistryValue
       IN /\ response' = Respond(R, DOMAIN contexts)
          /\ lastCall' = Call("context:list", NoneId, 0, activeContextId, R.err)
    /\ ResetRun
    /\ UNCHANGED <<contexts, activeContextId, objs, started, connectedHost>>
    /\ UNCHANGED <<frontVars, pure, connVars, cacheVars, sessVars>>

\* context:getActive
ContextGetActiveHandler(throws) ==
    /\ started
    /\ LET R == IF throws THEN Throw(RegistryValue, "RegistryError") ELSE RegistryValue
       IN /\ response' = Respond(R, activeContextId)
          /\ lastCall' = Call("context:getActive", activeContextId, 0,
                              activeContextId, R.err)
    /\ ResetRun
    /\ UNCHANGED <<contexts, activeContextId, objs, started, connectedHost>>
    /\ UNCHANGED <<frontVars, pure, connVars, cacheVars, sessVars>>

\* ssh:test: connectionManager.testConnection(config) resolves or rejects.
SshTestHandler(host, ok) ==
    /\ started
    /\ LET R == IF ok THEN RegistryValue ELSE Throw(RegistryValue, "TransportError")
       IN /\ response' = Respond(R, host)
          /\ lastCall' = Call("ssh:test", SshId(host), 0, activeContextId, R.err)
    /\ ResetRun
    /\ UNCHANGED <<contexts, activeContextId, objs, started, connectedHost>>
    /\ UNCHANGED <<frontVars, pure, connVars, cacheVars, sessVars>>

\* context:switch with a rewire callback that throws: the registry has
\* switched, the catch answers.
ContextSwitchRewireThrows(id) ==
    /\ started
    /\ LET R1 == switch(RegistryValue, id)
           R == IF R1.err # "none" THEN R1 ELSE Throw(R1, "RewireError")
       IN /\ Commit(R)
          /\ lastCall' = Call("context:switch", id, HandleOf(id), activeContextId, R.err)
          /\ response' = Respond(R, [contextId |-> id])
    /\ ResetRun
    /\ UNCHANGED <<started, connectedHost>>
    /\ UNCHANGED <<frontVars, pure, connVars, cacheVars, sessVars>>

\* ssh:connect with a rewire callback that throws.
SshConnectRewireThrows(host) ==
    /\ started
    /\ Len(objs) < MaxObjects
    /\ LET steps == SshConnectSteps(RegistryValue, host)
           R == IF Len(steps) < 6 THEN steps[Len(steps)]
                ELSE Throw(steps[5], "RewireError")
       IN /\ Commit(R)
          /\ lastCall' = Call("ssh:connect", SshId(host), Len(objs) + 1,
                              activeContextId, R.err)
          /\ response' = Respond(R, host)
    /\ connectedHost' = host
    /\ ResetRun
    /\ UNCHANGED started
    /\ UNCHANGED <<frontVars, pure, connVars, cacheVars, sessVars>>

\* ssh:disconnect with connectionManager.disconnect() throwing (nothing done
\* yet), or with the rewire callback throwing (switched and destroyed).
SshDisconnectThrows(where) ==
    /\ started
    /\ LET steps == SshDisconnectSteps(RegistryValue)
           R == IF where = "transport" THEN Throw(RegistryValue, "TransportError")
                ELSE IF Len(steps) < 3 THEN steps[Len(steps)]
                ELSE Throw(steps[2], "RewireError")
       IN /\ Commit(R)
          /\ lastCall' = Call("ssh:disconnect", activeContextId,
                              HandleOf(activeContextId), activeContextId, R.err)
          /\ response' = Respond(R, NoneId)
    /\ connectedHost' = IF where = "transport" THEN connectedHost ELSE NoneId
    /\ ResetRun
    /\ UNCHANGED started
    /\ UNCHANGED <<frontVars, pure, connVars, cacheVars, sessVars>>

\* The main process as the renderer drives it: through the handlers alone.
NextHandlers ==
    \/ Startup
    \/ CacheFillActive
    \/ \E id \in Ids : ContextSwitchHandler(id)
    \/ \E host \in Hosts : SshConnectFail(host)
    \/ \E host \in Hosts : SshConnectOk(host)
    \/ SshDisconnect

SpecHandlers == Init /\ [][NextHandlers]_vars

\* The handlers with their collaborators throwing where they can.
NextFaults ==
    \/ Startup
    \/ \E id \in Ids : ContextSwitchHandler(id)
    \/ \E host \in Hosts : SshConnectFail(host)
    \/ \E host \in Hosts : SshConnectOk(host)
    \/ SshDisconnect
    \/ \E throws \in BOOLEAN : ContextListHandler(throws)
    \/ \E throws \in BOOLEAN : ContextGetActiveHandler(throws)
    \/ \E host \in Hosts, ok \in BOOLEAN : SshTestHandler(host, ok)
    \/ \E id \in Ids : ContextSwitchRewireThrows(id)
    \/ \E host \in Hosts : SshConnectRewireThrows(host)
    \/ \E where \in {"transport", "rewire"} : SshDisconnectThrows(where)

SpecFaults == Init /\ [][NextFaults]_vars

\* Contexts held directly by their creator, as the standalone server holds its
\* local context: any order of lifecycle calls.
NextContext ==
    \/ Construct
    \/ \E h \in Handles : Start(h)
    \/ \E h \in Handles : Pause(h)
    \/ \E h \in Handles : Resume(h)
    \/ \E h \in Handles : Dispose(h)
    \/ \E h \in Handles : Subscribe(h)
    \/ \E h \in Handles : CacheFill(h)

SpecContext == Init /\ [][NextContext]_vars

\* ------------------------------------------------- renderer: switchContext
\* contextStorage.saveSnapshot(contextId, snapshot): one entry per context id.
saveSnapshot(store, contextId, snapshot) == [store EXCEPT ![contextId] = snapshot]

\* contextStorage.loadSnapshot(contextId): the entry, or nothing when there is
\* none or it is older than the TTL.
loadSnapshot(store, contextId, expired) ==
    IF expired THEN NoSnapshot ELSE store[contextId]

\* One call of switchContext: where it stands, what it captured, and the
\* state of each promise it awaits.
SwitchCall(pc, target, from, snap, status) ==
    [pc |-> pc, target |-> target, from |-> from, snap |-> snap,
     save |-> status, load |-> status, switch |-> status, fetch |-> "none",
     targetSnapshot |-> NoSnapshot, log |-> "none",
     fresh |-> [projects |-> {}, repositoryGroups |-> {}]]

\* Bug variant: switchContext without the re-entrancy guard of lines 283-285.
SwitchContext_noGuard(target) ==
    /\ Len(calls) < MaxCalls
    /\ LET F == StoreValue
       IN IF target = F.active
          THEN /\ calls' = Append(calls, SwitchCall("returned", target, F.active,
                                                    NoSnapshot, "none"))
               /\ UNCHANGED <<rendererContextId, isContextSwitching, targetContextId, view>>
          ELSE /\ SetStore([F EXCEPT !.switching = TRUE, !.target = target])
               /\ calls' = Append(calls,
                      SwitchCall("awaitAll", target, F.active,
                                 captureSnapshot(F.view, F.active), "pending"))
    /\ UNCHANGED snapshots
    /\ UNCHANGED <<backVars, pure, connVars, cacheVars, sessVars>>

\* Bug variant: switchContext without the early return of lines 278-280.
SwitchContext_noEarlyReturn(target) ==
    /\ Len(calls) < MaxCalls
    /\ LET F == StoreValue
       IN IF F.switching
          THEN /\ calls' = Append(calls, SwitchCall("returned", target, F.active,
                                                    NoSnapshot, "none"))
               /\ UNCHANGED <<rendererContextId, isContextSwitching, targetContextId, view>>
          ELSE /\ SetStore([F EXCEPT !.switching = TRUE, !.target = target])
               /\ calls' = Append(calls,
                      SwitchCall("awaitAll", target, F.active,
                                 captureSnapshot(F.view, F.active), "pending"))
    /\ UNCHANGED snapshots
    /\ UNCHANGED <<backVars, pure, connVars, cacheVars, sessVars>>

\* switchContext(targetContextId) up to its first await: the two early
\* returns, then the flag, the capture, and the three requests of line 296.
SwitchContext(target) ==
    /\ Len(calls) < MaxCalls
    /\ LET F == StoreValue
       IN IF target = F.active \/ F.switching
          THEN /\ calls' = Append(calls, SwitchCall("returned", target, F.active,
                                                    NoSnapshot, "none"))
               /\ UNCHANGED <<rendererContextId, isContextSwitching, targetContextId, view>>
          ELSE /\ SetStore([F EXCEPT !.switching = TRUE, !.target = target])
               /\ calls' = Append(calls,
                      SwitchCall("awaitAll", target, F.active,
                                 captureSnapshot(F.view, F.active), "pending"))
    /\ UNCHANGED snapshots
    /\ UNCHANGED <<backVars, pure, connVars, cacheVars, sessVars>>

\* Bug variant: Step 2 follows the save and the load alone, the backend switch
\* not being awaited.
AfterAwaitAll_switchNotAwaited(F, r) ==
    IF r.pc # "awaitAll" THEN [F |-> F, call |-> r]
    ELSE IF "rejected" \in {r.save, r.load, r.switch}
    THEN [F |-> switchFailed(F), call |-> [r EXCEPT !.pc = "returned", !.log = "error"]]
    ELSE IF "pending" \in {r.save, r.load}
    THEN [F |-> F, call |-> r]
    ELSE [F |-> applySnapshot(F, r.targetSnapshot, r.target),
          call |-> [r EXCEPT !.pc = "fetch", !.fetch = "pending"]]

\* What follows `await Promise.all([save, load, switch])` for a call whose
\* promises now stand as in r: the outer catch at the first rejection; Step 2
\* and the start of the background fetch once all three have resolved.
AfterAwaitAll(F, r) ==
    IF r.pc # "awaitAll" THEN [F |-> F, call |-> r]
    ELSE IF "rejected" \in {r.save, r.load, r.switch}
    THEN [F |-> switchFailed(F), call |-> [r EXCEPT !.pc = "returned", !.log = "error"]]
    ELSE IF "pending" \in {r.save, r.load, r.switch}
    THEN [F |-> F, call |-> r]
    ELSE [F |-> applySnapshot(F, r.targetSnapshot, r.target),
          call |-> [r EXCEPT !.pc = "fetch", !.fetch = "pending"]]

Settle(c, r) ==
    LET next == AfterAwaitAll(StoreValue, r)
    IN /\ SetStore(next.F)
       /\ calls' = [calls EXCEPT ![c] = next.call]

\* saveSnapshot(state.activeContextId, currentSnapshot) settles.
SaveSettle(c, ok) ==
    /\ c \in DOMAIN calls
    /\ calls[c].save = "pending"
    /\ snapshots' = IF ok THEN saveSnapshot(snapshots, calls[c].from, calls[c].snap)
                    ELSE snapshots
    /\ Settle(c, [calls[c] EXCEPT !.save = IF ok THEN "resolved" ELSE "rejected"])
    /\ UNCHANGED <<backVars, pure, connVars, cacheVars, sessVars>>

\* loadSnapshot(targetContextId) settles.
LoadSettle(c, ok, expired) ==
    /\ c \in DOMAIN calls
    /\ calls[c].load = "pending"
    /\ Settle(c, [calls[c] EXCEPT
                    !.load = IF ok THEN "resolved" ELSE "rejected",
                    !.targetSnapshot =
                        IF ok THEN loadSnapshot(snapshots, calls[c].target, expired)
                        ELSE NoSnapshot])
    /\ UNCHANGED snapshots
    /\ UNCHANGED <<backVars, pure, connVars, cacheVars, sessVars>>

\* api.context.switch(targetContextId) settles: the preload helper resolves
\* on {success: true} and rejects on {success: false}.
SwitchSettle(c, ok) ==
    /\ c \in DOMAIN calls
    /\ calls[c].switch = "pending"
    /\ Settle(c, [calls[c] EXCEPT !.switch = IF ok THEN "resolved" ELSE "rejected"])
    /\ UNCHANGED snapshots
    /\ UNCHANGED <<backVars, pure, connVars, cacheVars, sessVars>>

\* Step 3: Promise.all([getProjects(), getRepositoryGroups()]) resolved.
FetchResolve(c, freshProjects, freshRepoGroups) ==
    /\ c \in DOMAIN calls
    /\ calls[c].fetch = "pending"
    /\ SetStore(applyFresh(StoreValue, calls[c].targetSnapshot,
                           freshProjects, freshRepoGroups, calls[c].target))
    /\ calls' = [calls EXCEPT
                    ![c].pc = "returned", ![c].fetch = "resolved",
                    ![c].fresh = [projects |-> freshProjects,
                                  repositoryGroups |-> freshRepoGroups],
                    ![c].log = IF calls[c].targetSnapshot # NoSnapshot
                                  /\ EmptyFetchGuard(calls[c].targetSnapshot,
                                                     freshProjects, freshRepoGroups)
                               THEN "warn" ELSE "none"]
    /\ UNCHANGED snapshots
    /\ UNCHANGED <<backVars, pure, connVars, cacheVars, sessVars>>

\* Step 3: the inner try threw (a fetch rejected, or validation threw).
FetchReject(c) ==
    /\ c \in DOMAIN calls
    /\ calls[c].fetch = "pending"
    /\ SetStore(fetchFailed(StoreValue, calls[c].targetSnapshot, calls[c].target))
    /\ calls' = [calls EXCEPT ![c].pc = "returned", ![c].fetch = "rejected",
                              ![c].log = "error"]
    /\ UNCHANGED snapshots
    /\ UNCHANGED <<backVars, pure, connVars, cacheVars, sessVars>>

\* The renderer: switchContext calls and the settling of what they await.
NextRenderer ==
    \/ \E target \in ContextIds : SwitchContext(target)
    \/ \E c \in 1..MaxCalls, ok \in BOOLEAN : SaveSettle(c, ok)
    \/ \E c \in 1..MaxCalls, ok \in BOOLEAN, expired \in BOOLEAN : LoadSettle(c, ok, expired)
    \/ \E c \in 1..MaxCalls, ok \in BOOLEAN : SwitchSettle(c, ok)
    \/ \E c \in 1..MaxCalls, fp \in ProjectSets, fg \in GroupSets : FetchResolve(c, fp, fg)
    \/ \E c \in 1..MaxCalls : FetchReject(c)

SpecRenderer == InitWindow /\ [][NextRenderer]_vars

\* The remote context as an earlier session left it in the snapshot storage:
\* a project listed, one dashboard tab open.
RemoteTab == Tab("t3", "dashboard", NoneId)
RemoteView ==
    Spread(InitialView,
           [projects |-> {"p1"}, openTabs |-> <<RemoteTab>>, activeTabId |-> "t3",
            paneLayout |->
                [panes |-> <<[DefaultPane EXCEPT !.tabs = <<RemoteTab>>,
                                                !.activeTabId = "t3"]>>,
                 focusedPaneId |-> "pane-default"]])

\* A window opened over a snapshot storage that already holds the remote
\* context's snapshot.
InitWarmWindow ==
    /\ InitRegistry /\ InitPure /\ InitConnection /\ InitSessions /\ InitCache
    /\ rendererContextId = LocalId
    /\ isContextSwitching = FALSE
    /\ targetContextId = NoneId
    /\ calls = <<>>
    /\ view \in InitialViews
    /\ snapshots = [id \in ContextIds |->
                       IF id = LocalId THEN NoSnapshot
                       ELSE captureSnapshot(RemoteView, id)]

SpecWarmRenderer == InitWarmWindow /\ [][NextRenderer]_vars

\* Every pending asynchronous call eventually resolves or rejects.
PendingSettle(c) ==
    \/ \E ok \in BOOLEAN : SaveSettle(c, ok)
    \/ \E ok \in BOOLEAN, expired \in BOOLEAN : LoadSettle(c, ok, expired)
    \/ \E ok \in BOOLEAN : SwitchSettle(c, ok)
    \/ \E fp \in ProjectSets, fg \in GroupSets : FetchResolve(c, fp, fg)
    \/ FetchReject(c)

FairSpecRenderer ==
    SpecRenderer /\ \A c \in 1..MaxCalls : WF_vars(PendingSettle(c))

\* ------------------------------------------------ renderer: connectionSlice
\* The configurations connectSsh is called with: one host, password or key
\* authentication, either password.
Passwords == {"pw1", "pw2"}
AuthMethods == {"password", "privateKey"}
ConnectConfigs ==
    {[host |-> "h1", port |-> 22, username |-> "u1", authMethod |-> m,
      privateKeyPath |-> IF m = "privateKey" THEN "id_ed25519" ELSE NoneId,
      password |-> pw] : m \in AuthMethods, pw \in Passwords}

\* Bug variant: the configuration is kept as it was given.
SavedConnection_wholeConfig(config) == config

\* connectionSlice.ts:112-118: the profile kept for the next launch
SavedConnection(config) ==
    [host |-> config.host, port |-> config.port, username |-> config.username,
     authMethod |-> config.authMethod, privateKeyPath |-> config.privateKeyPath]

\* ssh.ts:181-189: what the save handler writes into config.ssh.lastConnection
saveLastConnection(config) ==
    [host |-> config.host, port |-> config.port, username |-> config.username,
     authMethod |-> config.authMethod, privateKeyPath |-> config.privateKeyPath]

\* connectionSlice.ts:80-98 and 141-158: the data cleared on connect and on
\* disconnect
ConnectionReset ==
    Spread([projects |-> {}, repositoryGroups |-> {}, openTabs |-> <<>>,
            activeTabId |-> NoneId, selectedTabIds |-> <<>>,
            paneLayout |-> [panes |-> <<DefaultPane>>,
                            focusedPaneId |-> "pane-default"]],
           getFullResetState)

\* One call of connectSsh or disconnectSsh; for a connect, the profile it
\* kept and what the save handler wrote for it.
SshCall(op, config) ==
    [op |-> op, config |-> config, pc |-> "pending",
     saved |-> NoConfig, persisted |-> NoConfig]

\* connectSsh(config) up to its await (lines 65-72)
ConnectSsh(config) ==
    /\ Len(sshCalls) < MaxConnects
    /\ connection' = [connection EXCEPT !.state = "connecting",
                                        !.host = config.host, !.error = NoneId]
    /\ sshCalls' = Append(sshCalls, SshCall("connect", config))
    /\ UNCHANGED <<backVars, frontVars, pure, ipc, lastConnection, wire, cacheVars, sessVars>>

\* api.ssh.connect(config) settles: with a status (connected, or not), or by
\* rejecting (lines 74-128). The fetches started at lines 106-107 belong to
\* the project and repository slices.
ConnectSettled(k, outcome) ==
    /\ k \in DOMAIN sshCalls
    /\ sshCalls[k].op = "connect" /\ sshCalls[k].pc = "pending"
    /\ sshCalls' = [sshCalls EXCEPT
                       ![k].pc = "returned",
                       ![k].saved = IF outcome = "connected"
                                    THEN SavedConnection(sshCalls[k].config)
                                    ELSE NoConfig]
    /\ LET config == sshCalls[k].config
       IN CASE outcome = "connected" ->
                 /\ connection' = [mode |-> "ssh", state |-> "connected",
                                   host |-> config.host, error |-> NoneId,
                                   lastSshConfig |-> SavedConnection(config)]
                 /\ rendererContextId' = SshId(config.host)
                 /\ view' = Spread(view, ConnectionReset)
                 /\ ipc' = Append(ipc, [call |-> k,
                                        config |-> SavedConnection(config)])
            [] outcome = "error" ->
                 /\ connection' = [connection EXCEPT
                                      !.mode = "local", !.state = "error",
                                      !.host = NoneId, !.error = "failed"]
                 /\ UNCHANGED <<rendererContextId, view, ipc>>
            [] outcome = "rejected" ->
                 /\ connection' = [connection EXCEPT
                                      !.state = "error", !.error = "failed"]
                 /\ UNCHANGED <<rendererContextId, view, ipc>>
    /\ UNCHANGED <<backVars, isContextSwitching, targetContextId, snapshots, calls,
                   pure, lastConnection, cacheVars, sessVars>>

ConnectSettle(k, outcome) == ConnectSettled(k, outcome) /\ UNCHANGED wire

\* disconnectSsh() up to its await (lines 131-133)
DisconnectSsh ==
    /\ Len(sshCalls) < MaxConnects
    /\ sshCalls' = Append(sshCalls, SshCall("disconnect", NoConfig))
    /\ UNCHANGED <<backVars, frontVars, pure, connection, ipc, lastConnection, wire, cacheVars, sessVars>>

\* api.ssh.disconnect() settles (lines 134-163)
DisconnectSettled(k, ok) ==
    /\ k \in DOMAIN sshCalls
    /\ sshCalls[k].op = "disconnect" /\ sshCalls[k].pc = "pending"
    /\ sshCalls' = [sshCalls EXCEPT ![k].pc = "returned"]
    /\ IF ok
       THEN /\ connection' = [connection EXCEPT
                                 !.mode = "local", !.state = "disconnected",
                                 !.host = NoneId, !.error = NoneId]
            /\ rendererContextId' = LocalId
            /\ view' = Spread(view, ConnectionReset)
       ELSE /\ connection' = [connection EXCEPT !.error = "failed"]
            /\ UNCHANGED <<rendererContextId, view>>
    /\ UNCHANGED <<backVars, isContextSwitching, targetContextId, snapshots, calls,
                   pure, ipc, lastConnection, cacheVars, sessVars>>

DisconnectSettle(k, ok) == DisconnectSettled(k, ok) /\ UNCHANGED wire

\* The SSH_SAVE_LAST_CONNECTION handler (ssh.ts:179-196); updateConfig may throw.
SaveLastConnectionHandler(ok) ==
    /\ ipc # <<>>
    /\ ipc' = Tail(ipc)
    /\ lastConnection' = IF ok THEN saveLastConnection(Head(ipc).config)
                          ELSE lastConnection
    /\ sshCalls' = IF ok THEN [sshCalls EXCEPT ![Head(ipc).call].persisted =
                                  saveLastConnection(Head(ipc).config)]
                    ELSE sshCalls
    /\ UNCHANGED <<backVars, frontVars, pure, connection, wire, cacheVars, sessVars>>

\* The connection slice: connects, disconnects, and the save handler.
NextConnection ==
    \/ \E config \in ConnectConfigs : ConnectSsh(config)
    \/ \E k \in 1..MaxConnects, outcome \in {"connected", "error", "rejected"} :
          ConnectSettle(k, outcome)
    \/ DisconnectSsh
    \/ \E k \in 1..MaxConnects, ok \in BOOLEAN : DisconnectSettle(k, ok)
    \/ \E ok \in BOOLEAN : SaveLastConnectionHandler(ok)

SpecConnection == InitWindow /\ [][NextConnection]_vars

\* --------------------------------------- renderer and main process together
\* setConnectionStatus(state, host, error), lines 182-194: called with the
\* status the connection manager reports.
setConnectionStatus(conn, state, host, error) ==
    [conn EXCEPT !.state = state,
                 !.mode = IF state = "connected" THEN "ssh" ELSE "local",
                 !.host = host, !.error = error]

\* The status events the main process pushes: connected to the host it is
\* connected to, or disconnected / failed when it is connected to none.
StatusEvents ==
    IF connectedHost # NoneId
    THEN {[state |-> "connected", host |-> connectedHost, error |-> NoneId]}
    ELSE {[state |-> "disconnected", host |-> NoneId, error |-> NoneId],
          [state |-> "error", host |-> NoneId, error |-> "failed"]}

SetConnectionStatus(ev) ==
    /\ started
    /\ ev \in StatusEvents
    /\ connection' = setConnectionStatus(connection, ev.state, ev.host, ev.error)
    /\ connection' # connection
    /\ UNCHANGED <<backVars, frontVars, pure, sshCalls, ipc, lastConnection, wire,
                   cacheVars, sessVars>>

\* A response of the main process on its way to the renderer; responses
\* arrive in the order in which the handlers returned.
Response(op, call, ok) == [op |-> op, call |-> call, ok |-> ok]
Answered(op, call) == \E i \in DOMAIN wire : wire[i].op = op /\ wire[i].call = call

\* The one configuration the window connects with.
WindowConfigs ==
    {config \in ConnectConfigs :
        config.authMethod = "password" /\ config.password = "pw1"}

\* switchContext(targetContextId), called up to MaxSwitches times.
WindowSwitchContext(target) ==
    /\ Len(calls) < MaxSwitches
    /\ SwitchContext(target)

\* The context:switch handler runs for the request of switchContext call c.
WindowSwitchHandler(c) ==
    /\ started
    /\ c \in DOMAIN calls
    /\ calls[c].switch = "pending" /\ ~Answered("switch", c)
    /\ LET id == calls[c].target
           R == ContextSwitchBody(RegistryValue, id)
       IN /\ Commit(R)
          /\ lastCall' = Call("context:switch", id, HandleOf(id), activeContextId, R.err)
          /\ response' = Respond(R, [contextId |-> id])
          /\ wire' = Append(wire, Response("switch", c, R.err = "none"))
    /\ ResetRun
    /\ UNCHANGED <<started, connectedHost>>
    /\ UNCHANGED <<frontVars, pure, connection, sshCalls, ipc, lastConnection, cacheVars, sessVars>>

\* api.context.switch(targetContextId) of call c settles with the handler's
\* response: resolved on {success: true}, rejected on {success: false}.
SwitchResponse(c) ==
    /\ c \in DOMAIN calls
    /\ calls[c].switch = "pending"
    /\ wire # <<>>
    /\ Head(wire).op = "switch" /\ Head(wire).call = c
    /\ wire' = Tail(wire)
    /\ Settle(c, [calls[c] EXCEPT
                    !.switch = IF Head(wire).ok THEN "resolved" ELSE "rejected"])
    /\ UNCHANGED snapshots
    /\ UNCHANGED <<backVars, pure, connection, sshCalls, ipc, lastConnection, cacheVars, sessVars>>

\* The ssh:connect handler runs for the request of connectSsh call k; the
\* transport connects or fails.
WindowConnectHandler(k, ok) ==
    /\ started
    /\ k \in DOMAIN sshCalls
    /\ sshCalls[k].op = "connect" /\ sshCalls[k].pc = "pending"
    /\ ~Answered("connect", k)
    /\ LET host == sshCalls[k].config.host
       IN IF ok
          THEN /\ Len(objs) < MaxObjects
               /\ LET R == SshConnectBody(RegistryValue, host)
                  IN /\ Commit(R)
                     /\ lastCall' = Call("ssh:connect", SshId(host), Len(objs) + 1,
                                         activeContextId, R.err)
                     /\ response' = Respond(R, host)
                     /\ wire' = Append(wire, Response("connect", k, R.err = "none"))
               /\ connectedHost' = host
          ELSE /\ lastCall' = Call("ssh:connect", SshId(host), 0, activeContextId,
                                   "TransportError")
               /\ response' = Respond(Throw(RegistryValue, "TransportError"), NoneId)
               /\ wire' = Append(wire, Response("connect", k, FALSE))
               /\ connectedHost' \in {connectedHost, NoneId}
               /\ UNCHANGED <<contexts, activeContextId, objs>>
    /\ ResetRun
    /\ UNCHANGED started
    /\ UNCHANGED <<frontVars, pure, connection, sshCalls, ipc, lastConnection, cacheVars, sessVars>>

\* api.ssh.connect(config) of call k settles with the handler's response.
ConnectResponse(k) ==
    /\ wire # <<>>
    /\ Head(wire).op = "connect" /\ Head(wire).call = k
    /\ wire' = Tail(wire)
    /\ ConnectSettled(k, IF Head(wire).ok THEN "connected" ELSE "rejected")

\* The ssh:disconnect handler runs for the request of disconnectSsh call k.
WindowDisconnectHandler(k) ==
    /\ started
    /\ k \in DOMAIN sshCalls
    /\ sshCalls[k].op = "disconnect" /\ sshCalls[k].pc = "pending"
    /\ ~Answered("disconnect", k)
    /\ LET R == SshDisconnectBody(RegistryValue)
       IN /\ Commit(R)
          /\ lastCall' = Call("ssh:disconnect", activeContextId,
                              HandleOf(activeContextId), activeContextId, R.err)
          /\ response' = Respond(R, NoneId)
          /\ wire' = Append(wire, Response("disconnect", k, R.err = "none"))
    /\ connectedHost' = NoneId
    /\ ResetRun
    /\ UNCHANGED started
    /\ UNCHANGED <<frontVars, pure, connection, sshCalls, ipc, lastConnection, cacheVars, sessVars>>

\* api.ssh.disconnect() of call k settles with the handler's response.
DisconnectResponse(k) ==
    /\ wire # <<>>
    /\ Head(wire).op = "disconnect" /\ Head(wire).call = k
    /\ wire' = Tail(wire)
    /\ DisconnectSettled(k, Head(wire).ok)

\* The window and the main process: switchContext, connectSsh and
\* disconnectSsh calls, the handlers that serve them in any order, the
\* snapshot storage and the fetches settling either way, and status events.
NextWindow ==
    \/ Startup
    \/ \E target \in ContextIds : WindowSwitchContext(target)
    \/ \E c \in 1..MaxCalls, ok \in BOOLEAN : SaveSettle(c, ok)
    \/ \E c \in 1..MaxCalls, ok \in BOOLEAN, expired \in BOOLEAN : LoadSettle(c, ok, expired)
    \/ \E c \in 1..MaxCalls : WindowSwitchHandler(c)
    \/ \E c \in 1..MaxCalls : SwitchResponse(c)
    \/ \E c \in 1..MaxCalls, fp \in ProjectSets, fg \in GroupSets : FetchResolve(c, fp, fg)
    \/ \E c \in 1..MaxCalls : FetchReject(c)
    \/ \E config \in WindowConfigs : ConnectSsh(config)
    \/ \E k \in 1..MaxConnects, ok \in BOOLEAN : WindowConnectHandler(k, ok)
    \/ \E k \in 1..MaxConnects : ConnectResponse(k)
    \/ DisconnectSsh
    \/ \E k \in 1..MaxConnects : WindowDisconnectHandler(k)
    \/ \E k \in 1..MaxConnects : DisconnectResponse(k)
    \/ \E ev \in StatusEvents : SetConnectionStatus(ev)

InitBothSides ==
    /\ InitRegistry /\ InitStore /\ InitPure /\ InitConnection /\ InitSessions /\ InitCache
    /\ view = PopulatedView

SpecWindow == InitBothSides /\ [][NextWindow]_vars

\* ---------------------------------------------------- renderer: sessionSlice
\* The pages api.getSessionsPaginated(projectId, null, 20, ...) may return.
SessionPages ==
    {[sessions |-> <<"s1">>, nextCursor |-> NoneId, hasMore |-> FALSE, totalCount |-> 1],
     [sessions |-> <<"s2", "s1">>, nextCursor |-> "c1", hasMore |-> TRUE, totalCount |-> 2]}

NoPage == [none |-> TRUE]

\* One call of refreshSessionsInPlace or togglePinSession: its arguments, the
\* locals it keeps across its await, where it stands, and how it ended.
RefreshCall(projectId, generation, pc) ==
    [op |-> "refresh", projectId |-> projectId, generation |-> generation,
     pc |-> pc, result |-> NoPage]

ToggleCall(sessionId, isPinned, previousPinnedIds, pc) ==
    [op |-> "toggle", sessionId |-> sessionId, isPinned |-> isPinned,
     previousPinnedIds |-> previousPinnedIds, pc |-> pc]

\* Bug variant: no response is taken for stale.
IsStaleRefresh_never(generations, projectId, generation) == FALSE

\* line 493: projectRefreshGeneration.get(projectId) !== generation
IsStaleRefresh(generations, projectId, generation) ==
    generations[projectId] # generation

\* refreshSessionsInPlace(projectId) up to its await (lines 472-483)
RefreshSessionsInPlace(projectId) ==
    /\ Len(sessionCalls) < MaxSessionCalls
    /\ IF view.selectedProjectId # projectId
       THEN /\ sessionCalls' = Append(sessionCalls, RefreshCall(projectId, 0, "skipped"))
            /\ UNCHANGED projectRefreshGeneration
       ELSE LET generation == projectRefreshGeneration[projectId] + 1
            IN /\ projectRefreshGeneration' =
                      [projectRefreshGeneration EXCEPT ![projectId] = generation]
               /\ sessionCalls' =
                      Append(sessionCalls, RefreshCall(projectId, generation, "pending"))
    /\ UNCHANGED <<backVars, frontVars, pure, connVars, cacheVars, pinnedSessions>>

\* api.getSessionsPaginated settles for call k (lines 485-506): a rejection is
\* logged; a stale response is dropped; any other is written to the store.
RefreshSettle(k, ok, result) ==
    /\ k \in DOMAIN sessionCalls
    /\ sessionCalls[k].op = "refresh" /\ sessionCalls[k].pc = "pending"
    /\ IF ~ok
       THEN /\ sessionCalls' = [sessionCalls EXCEPT ![k].pc = "failed"]
            /\ UNCHANGED view
       ELSE IF IsStaleRefresh(projectRefreshGeneration, sessionCalls[k].projectId,
                              sessionCalls[k].generation)
       THEN /\ sessionCalls' = [sessionCalls EXCEPT ![k].pc = "dropped",
                                                    ![k].result = result]
            /\ UNCHANGED view
       ELSE /\ sessionCalls' = [sessionCalls EXCEPT ![k].pc = "applied",
                                                    ![k].result = result]
            /\ view' = Spread(view, [sessions |-> result.sessions,
                                     sessionsCursor |-> result.nextCursor,
                                     sessionsHasMore |-> result.hasMore,
                                     sessionsTotalCount |-> result.totalCount])
    /\ UNCHANGED <<backVars, rendererContextId, isContextSwitching, targetContextId,
                   snapshots, calls, pure, connVars, cacheVars,
                   projectRefreshGeneration, pinnedSessions>>

\* pinnedSessionIds.filter((id) => id !== sessionId)
Unpinned(pinnedIds, sessionId) == SelectSeq(pinnedIds, LAMBDA id : id # sessionId)

Includes(pinnedIds, sessionId) == \E i \in DOMAIN pinnedIds : pinnedIds[i] = sessionId

\* line 533: the list as it was when the failed call started
TogglePinRollback(pinnedIds, call) == call.previousPinnedIds

\* togglePinSession(sessionId) up to its await (lines 511-524)
TogglePinSession(sessionId) ==
    /\ Len(sessionCalls) < MaxSessionCalls
    /\ IF view.selectedProjectId = NoneId
       THEN /\ sessionCalls' = Append(sessionCalls, ToggleCall(sessionId, FALSE, <<>>, "skipped"))
            /\ UNCHANGED view
       ELSE LET isPinned == Includes(view.pinnedSessionIds, sessionId)
                previousPinnedIds == view.pinnedSessionIds
            IN /\ view' = [view EXCEPT !.pinnedSessionIds =
                              IF isPinned THEN Unpinned(previousPinnedIds, sessionId)
                              ELSE <<sessionId>> \o previousPinnedIds]
               /\ sessionCalls' = Append(sessionCalls,
                      ToggleCall(sessionId, isPinned, previousPinnedIds, "pending"))
    /\ UNCHANGED <<backVars, rendererContextId, isContextSwitching, targetContextId,
                   snapshots, calls, pure, connVars, cacheVars,
                   projectRefreshGeneration, pinnedSessions>>

\* api.config.pinSession / unpinSession settles for call k (lines 526-535):
\* the main process has written the pin, or the call is rejected and the
\* list is put back.
TogglePinSettle(k, ok) ==
    /\ k \in DOMAIN sessionCalls
    /\ sessionCalls[k].op = "toggle" /\ sessionCalls[k].pc = "pending"
    /\ IF ok
       THEN /\ pinnedSessions' = IF sessionCalls[k].isPinned
                                 THEN pinnedSessions \ {sessionCalls[k].sessionId}
                                 ELSE pinnedSessions \cup {sessionCalls[k].sessionId}
            /\ sessionCalls' = [sessionCalls EXCEPT ![k].pc = "resolved"]
            /\ UNCHANGED view
       ELSE /\ view' = [view EXCEPT !.pinnedSessionIds =
                           TogglePinRollback(view.pinnedSessionIds, sessionCalls[k])]
            /\ sessionCalls' = [sessionCalls EXCEPT ![k].pc = "rejected"]
            /\ UNCHANGED pinnedSessions
    /\ UNCHANGED <<backVars, rendererContextId, isContextSwitching, targetContextId,
                   snapshots, calls, pure, connVars, cacheVars,
                   projectRefreshGeneration>>

\* The window with either project selected, or none.
InitSessionWindow ==
    /\ InitRegistry /\ InitStore /\ InitPure /\ InitConnection /\ InitSessions /\ InitCache
    /\ \E p \in SessionProjects \cup {NoneId} :
          view = [PopulatedView EXCEPT !.selectedProjectId = p]

NextRefresh ==
    \/ \E p \in SessionProjects : RefreshSessionsInPlace(p)
    \/ \E k \in 1..MaxSessionCalls, ok \in BOOLEAN, result \in SessionPages :
          RefreshSettle(k, ok, result)

SpecRefresh == InitSessionWindow /\ [][NextRefresh]_vars

NextPins ==
    \/ \E sessionId \in SessionIds : TogglePinSession(sessionId)
    \/ \E k \in 1..MaxSessionCalls, ok \in BOOLEAN : TogglePinSettle(k, ok)

SpecPins == InitSessionWindow /\ [][NextPins]_vars

\* ------------------------------------------------------- SearchTextCache
\* One path more than the largest capacity, so that a full cache can always
\* be given a new one; two modification times.
CachePaths == {"f" \o ToString(i) : i \in 1..(MaxCapacity + 1)}
Mtimes == {1, 2}

PathsOf(c) == {c[i].path : i \in DOMAIN c}

\* Map.delete(filePath)
Without(c, filePath) == SelectSeq(c, LAMBDA e : e.path # filePath)

\* Bug variant: a hit leaves the entry where it is.
get_noReinsert(c, filePath, mtimeMs) ==
    LET found == SelectSeq(c, LAMBDA e : e.path = filePath)
    IN IF found = <<>> THEN [cache |-> c, hit |-> FALSE]
       ELSE IF found[1].mtimeMs # mtimeMs
       THEN [cache |-> Without(c, filePath), hit |-> FALSE]
       ELSE [cache |-> c, hit |-> TRUE]

\* get(filePath, mtimeMs), lines 153-171: nothing for an unknown path; a
\* stale entry is deleted; a hit is deleted and re-inserted at the end.
get(c, filePath, mtimeMs) ==
    LET found == SelectSeq(c, LAMBDA e : e.path = filePath)
    IN IF found = <<>> THEN [cache |-> c, hit |-> FALSE]
       ELSE IF found[1].mtimeMs # mtimeMs
       THEN [cache |-> Without(c, filePath), hit |-> FALSE]
       ELSE [cache |-> Append(Without(c, filePath), found[1]), hit |-> TRUE]

\* Bug variant: nothing is evicted.
set_noEviction(c, n, filePath, mtimeMs) ==
    Append(Without(c, filePath), [path |-> filePath, mtimeMs |-> mtimeMs])

\* set(filePath, mtimeMs, ...), lines 176-194, on a cache of capacity n: the
\* path is deleted, the first key is evicted if the Map is still at capacity,
\* and the entry is inserted at the end.
set(c, n, filePath, mtimeMs) ==
    LET deleted == Without(c, filePath)
        room == IF Len(deleted) >= n /\ deleted # <<>> THEN Tail(deleted)
                ELSE deleted
    IN Append(room, [path |-> filePath, mtimeMs |-> mtimeMs])

\* invalidate(filePath), clear() and the size getter
invalidate(c, filePath) == Without(c, filePath)
clear(c) == <<>>
size(c) == Len(c)

\* new SearchTextCache(maxSize)
InitSearchTextCache ==
    /\ InitRegistry /\ InitStore /\ InitPure /\ InitConnection /\ InitSessions
    /\ view = InitialView
    /\ cache = <<>>
    /\ maxSize \in 1..MaxCapacity
    /\ cacheLog = [NoCacheCall EXCEPT !.lastUse = [p \in CachePaths |-> 0],
                                     !.lastSet = [p \in CachePaths |-> 0],
                                     !.usedBefore = [p \in CachePaths |-> 0]]

\* The call just made, and the time of the last use and last set of each path.
Logged(op, filePath, hit, used, isSet) ==
    [op |-> op, path |-> filePath, hit |-> hit, before |-> cache,
     clock |-> IF used THEN cacheLog.clock + 1 ELSE cacheLog.clock,
     lastUse |-> IF used THEN [cacheLog.lastUse EXCEPT ![filePath] = cacheLog.clock + 1]
                 ELSE cacheLog.lastUse,
     lastSet |-> IF isSet THEN [cacheLog.lastSet EXCEPT ![filePath] = cacheLog.clock + 1]
                 ELSE cacheLog.lastSet,
     usedBefore |-> cacheLog.lastUse]

CacheSet(filePath, mtimeMs) ==
    /\ cacheLog.clock < MaxUses
    /\ cache' = set(cache, maxSize, filePath, mtimeMs)
    /\ cacheLog' = Logged("set", filePath, FALSE, TRUE, TRUE)
    /\ UNCHANGED <<backVars, frontVars, pure, connVars, maxSize, sessVars>>

CacheGet(filePath, mtimeMs) ==
    /\ cacheLog.clock < MaxUses
    /\ LET r == get(cache, filePath, mtimeMs)
       IN /\ cache' = r.cache
          /\ cacheLog' = Logged("get", filePath, r.hit, r.hit, FALSE)
    /\ UNCHANGED <<backVars, frontVars, pure, connVars, maxSize, sessVars>>

CacheInvalidate(filePath) ==
    /\ cache' = invalidate(cache, filePath)
    /\ cacheLog' = Logged("invalidate", filePath, FALSE, FALSE, FALSE)
    /\ UNCHANGED <<backVars, frontVars, pure, connVars, maxSize, sessVars>>

CacheClear ==
    /\ cache' = clear(cache)
    /\ cacheLog' = Logged("clear", NoneId, FALSE, FALSE, FALSE)
    /\ UNCHANGED <<backVars, frontVars, pure, connVars, maxSize, sessVars>>

NextSearchTextCache ==
    \/ \E filePath \in CachePaths, mtimeMs \in Mtimes : CacheSet(filePath, mtimeMs)
    \/ \E filePath \in CachePaths, mtimeMs \in Mtimes : CacheGet(filePath, mtimeMs)
    \/ \E filePath \in CachePaths : CacheInvalidate(filePath)
    \/ CacheClear

SpecSearchTextCache == InitSearchTextCache /\ [][NextSearchTextCache]_vars

\* ------------------------------------------- renderer: validateSnapshot alone
\* The panes a stored layout may hold: no tab, a session tab of project p1,
\* a dashboard tab, or both; the active tab any of them or none.
TabChoices == {<<>>, <<SessionTab>>, <<DashboardTab>>, <<SessionTab, DashboardTab>>}
PaneShapes == [tabs : TabChoices, activeTabId : {NoneId, "t1", "t2"}]

PaneIdOf(i) == "pane-" \o ToString(i)

PaneOf(shape, i) ==
    [id |-> PaneIdOf(i), tabs |-> shape.tabs, activeTabId |-> shape.activeTabId,
     selectedTabIds |-> IF shape.activeTabId = NoneId THEN <<>>
                        ELSE <<shape.activeTabId>>,
     widthFraction |-> 1]

\* Layouts of one to MaxPanes panes, the focus on the first pane, on the last
\* one, or on a pane that is no longer in the layout.
PaneLayouts ==
    UNION {{[panes |-> [i \in 1..n |-> PaneOf(shapes[i], i)], focusedPaneId |-> f] :
               shapes \in [1..n -> PaneShapes],
               f \in {PaneIdOf(1), PaneIdOf(n), "pane-closed"}} :
           n \in 1..MaxPanes}

\* A snapshot of the window in use, with the given layout.
SnapshotWith(layout) ==
    [captureSnapshot(PopulatedView, SshId("h1")) EXCEPT !.paneLayout = layout]

InitValidate ==
    /\ InitRegistry
    /\ InitConnection /\ InitSessions
    /\ InitCache
    /\ InitStore
    /\ view = InitialView
    /\ \E layout \in PaneLayouts, fp \in ProjectSets, fg \in GroupSets :
           pure = [fn |-> "validateSnapshot", snapshot |-> SnapshotWith(layout),
                   freshProjects |-> fp, freshRepoGroups |-> fg,
                   done |-> FALSE, result |-> NoSnapshot]

\* validateSnapshot(targetSnapshot, freshProjects, freshRepoGroups), line 353
ValidateSnapshot ==
    /\ pure.fn = "validateSnapshot"
    /\ ~pure.done
    /\ pure' = [pure EXCEPT
                  !.done = TRUE,
                  !.result = validateSnapshot(pure.snapshot, pure.freshProjects,
                                              pure.freshRepoGroups)]
    /\ UNCHANGED <<backVars, frontVars, connVars, cacheVars, sessVars>>

NextValidate == ValidateSnapshot

SpecValidate == InitValidate /\ [][NextValidate]_vars

\* The selections a stored snapshot may hold: each of them none, or the
\* project, repository or worktree that was selected when it was captured.
Selections ==
    [selectedProjectId : {NoneId, "p1"}, selectedRepositoryId : {NoneId, "g1"},
     selectedWorktreeId : {NoneId, "w-g1"}, activeProjectId : {NoneId, "p1", "w-g1"}]

\* A snapshot of the window in use with the given layout and selections; the
\* top-level tab list, active tab and tab selection are those of its first pane.
SnapshotOf(layout, sel) ==
    [SnapshotWith(layout) EXCEPT
        !.selectedProjectId = sel.selectedProjectId,
        !.selectedRepositoryId = sel.selectedRepositoryId,
        !.selectedWorktreeId = sel.selectedWorktreeId,
        !.activeProjectId = sel.activeProjectId,
        !.openTabs = layout.panes[1].tabs,
        !.activeTabId = layout.panes[1].activeTabId,
        !.selectedTabIds = layout.panes[1].selectedTabIds]

InitReconcile ==
    /\ InitRegistry
    /\ InitConnection /\ InitSessions
    /\ InitCache
    /\ InitStore
    /\ view = InitialView
    /\ \E layout \in PaneLayouts, sel \in Selections,
          fp \in ProjectSets, fg \in GroupSets :
           pure = [fn |-> "validateSnapshot", snapshot |-> SnapshotOf(layout, sel),
                   freshProjects |-> fp, freshRepoGroups |-> fg,
                   done |-> FALSE, result |-> NoSnapshot]

SpecReconcile == InitReconcile /\ [][NextValidate]_vars

\* --------------------------------------- renderer: capture, save, load alone
\* The store as a capture may find it: either window, a fetch under way or
\* not, an error shown or not, either view mode.
CaptureViews ==
    {Spread(v, [projectsLoading |-> l, projectsError |-> e, viewMode |-> m]) :
        v \in InitialViews, l \in BOOLEAN, e \in {NoneId, "failed"},
        m \in {"grouped", "flat"}}

\* What the storage may hold for a context before the save: nothing, or the
\* snapshot of an earlier visit.
EarlierSnapshots(contextId) ==
    {NoSnapshot, captureSnapshot(InitialView, contextId)}

InitRoundTrip ==
    /\ InitRegistry
    /\ InitConnection /\ InitSessions
    /\ InitCache
    /\ rendererContextId = LocalId
    /\ isContextSwitching = FALSE
    /\ targetContextId = NoneId
    /\ calls = <<>>
    /\ view \in CaptureViews
    /\ \E contextId \in ContextIds :
          /\ snapshots \in [ContextIds -> {NoSnapshot}
                                          \cup EarlierSnapshots(contextId)]
          /\ \A id \in ContextIds \ {contextId} : snapshots[id] = NoSnapshot
          /\ pure = [fn |-> "roundTrip", contextId |-> contextId,
                     stage |-> "start", state |-> view,
                     snapshot |-> NoSnapshot, loaded |-> NoSnapshot,
                     expired |-> FALSE]

\* line 295: captureSnapshot(state, state.activeContextId)
Capture ==
    /\ pure.fn = "roundTrip"
    /\ pure.stage = "start"
    /\ pure' = [pure EXCEPT !.stage = "captured", !.state = view,
                            !.snapshot = captureSnapshot(view, pure.contextId)]
    /\ UNCHANGED <<backVars, frontVars, connVars, cacheVars, sessVars>>

\* line 297: contextStorage.saveSnapshot(contextId, currentSnapshot) resolved
Save ==
    /\ pure.fn = "roundTrip"
    /\ pure.stage = "captured"
    /\ snapshots' = saveSnapshot(snapshots, pure.contextId, pure.snapshot)
    /\ pure' = [pure EXCEPT !.stage = "saved"]
    /\ UNCHANGED <<backVars, rendererContextId, isContextSwitching,
                   targetContextId, view, calls, connVars, cacheVars, sessVars>>

\* line 298: contextStorage.loadSnapshot(contextId) resolved
Load(expired) ==
    /\ pure.fn = "roundTrip"
    /\ pure.stage = "saved"
    /\ pure' = [pure EXCEPT !.stage = "loaded", !.expired = expired,
                            !.loaded = loadSnapshot(snapshots, pure.contextId, expired)]
    /\ UNCHANGED <<backVars, frontVars, connVars, cacheVars, sessVars>>

\* The store moves on while the snapshot is kept (lines 303-330 put another
\* context's data in it).
StoreUpdate(newView) ==
    /\ pure.fn = "roundTrip"
    /\ pure.stage \in {"captured", "saved"}
    /\ newView # view
    /\ view' = newView
    /\ UNCHANGED <<backVars, rendererContextId, isContextSwitching,
                   targetContextId, snapshots, calls, pure, connVars, cacheVars, sessVars>>

NextRoundTrip ==
    \/ Capture
    \/ Save
    \/ \E expired \in BOOLEAN : Load(expired)
    \/ \E newView \in CaptureViews : StoreUpdate(newView)

SpecRoundTrip == InitRoundTrip /\ [][NextRoundTrip]_vars

\* ================================================================== claims
Watching == [h \in DOMAIN objs |-> objs[h].watching]

RegistryCalls == {"switch", "context:switch"}

\* C1 (as claimed): in every reachable state of the registry, from
\* construction onward, activeContextId is a key of the contexts map.
C1_ActiveAlwaysRegistered == activeContextId \in DOMAIN contexts

\* C1 (amended): in every reachable state in which the local context has been
\* registered, activeContextId is a key of the contexts map, so getActive()
\* does not throw.
C1_ActiveRegisteredOnceLocalIs ==
    LocalId \in DOMAIN contexts => activeContextId \in DOMAIN contexts

\* the active ssh context has just been destroyed and the active id resolves
C1_Witness ==
    /\ lastCall.op = "destroy"
    /\ lastCall.err = "none"
    /\ lastCall.prev = lastCall.id
    /\ activeContextId \in DOMAIN contexts

\* C2: switch(id) with an unregistered id throws NotFoundError and leaves
\* activeContextId, the contexts map and every watcher's running status as
\* they were.
C2_SwitchUnknownChangesNothing ==
    [][(lastCall'.op \in RegistryCalls /\ lastCall'.id \notin DOMAIN contexts)
         => /\ lastCall'.err = "NotFoundError"
            /\ activeContextId' = activeContextId
            /\ contexts' = contexts
            /\ Watching' = Watching]_vars

\* a switch to an unregistered id has failed while an ssh context was active
C2_Witness ==
    /\ lastCall.op \in RegistryCalls
    /\ lastCall.err = "NotFoundError"
    /\ lastCall.id \notin DOMAIN contexts
    /\ IsSshId(activeContextId)
    /\ objs[contexts[activeContextId]].watching

\* C3: destroy('local') throws PermanentContextError in every registry state
\* and leaves the contexts map, activeContextId and every context (the local
\* one's disposed flag included) as they were.
C3_DestroyLocalRefused ==
    [][(lastCall'.op = "destroy" /\ lastCall'.id = LocalId)
         => /\ lastCall'.err = "PermanentContextError"
            /\ contexts' = contexts
            /\ activeContextId' = activeContextId
            /\ objs' = objs]_vars

\* destroy('local') has been refused, once with an ssh context active
C3_Witness ==
    /\ lastCall.op = "destroy"
    /\ lastCall.id = LocalId
    /\ lastCall.err = "PermanentContextError"
    /\ IsSshId(activeContextId)
    /\ ~objs[contexts[LocalId]].disposed

\* C4: destroy(id) of the active context, id other than 'local', returns with
\* activeContextId = 'local', the id removed from the map, the destroyed
\* context disposed and the local context's watcher running.
C4_DestroyActiveFallsBackToLocal ==
    (lastCall.op = "destroy" /\ lastCall.id # LocalId /\ lastCall.prev = lastCall.id)
      => /\ lastCall.err = "none"
         /\ activeContextId = LocalId
         /\ lastCall.id \notin DOMAIN contexts
         /\ objs[lastCall.h].disposed
         /\ LocalId \in DOMAIN contexts
         /\ objs[contexts[LocalId]].watching

\* the active ssh context has been destroyed while another ssh context stays
C4_Witness ==
    /\ lastCall.op = "destroy"
    /\ lastCall.id # LocalId
    /\ lastCall.prev = lastCall.id
    /\ objs[lastCall.h].disposed
    /\ \E id \in SshIds : id \in DOMAIN contexts

\* C5: after any run of consecutive switch calls to registered ids,
\* activeContextId is the last target and every id registered when the run
\* began still resolves to the same context.
C5_SwitchRunEndsAtLastTarget ==
    runLen > 0
      => /\ lastCall.op \in RegistryCalls
         /\ activeContextId = lastCall.id
         /\ \A id \in DOMAIN runStart :
               id \in DOMAIN contexts /\ contexts[id] = runStart[id]

\* three switches in a row, the last one between two different contexts,
\* with three contexts registered
C5_Witness ==
    /\ runLen = MaxRun
    /\ lastCall.prev # lastCall.id
    /\ lastCall.id # LocalId
    /\ Cardinality(DOMAIN runStart) = 3

\* C6: registerContext with an id already in the map throws
\* DuplicateContextError; the map still holds the context registered first
\* and activeContextId is unchanged.
C6_DuplicateRegisterRefused ==
    [][(lastCall'.op = "registerContext" /\ lastCall'.id \in DOMAIN contexts)
         => /\ lastCall'.err = "DuplicateContextError"
            /\ contexts' = contexts
            /\ activeContextId' = activeContextId]_vars

\* a second context with a registered ssh id has been refused
C6_Witness ==
    /\ lastCall.op = "registerContext"
    /\ lastCall.err = "DuplicateContextError"
    /\ IsSshId(lastCall.id)
    /\ lastCall.id \in DOMAIN contexts

LifecycleCalls == {"start", "stopFileWatcher", "startFileWatcher"}

\* C7: a disposed context stays disposed, its watcher and cleanup timer never
\* run again, and start(), stopFileWatcher() and startFileWatcher() on it
\* return without throwing and change nothing.
C7_DisposedNeverResurrected ==
    [][\A h \in DOMAIN objs :
          objs[h].disposed
            => /\ objs'[h].disposed
               /\ ~objs'[h].watching
               /\ ~objs'[h].cleanup
               /\ (lastCall'.op \in LifecycleCalls /\ lastCall'.h = h)
                    => (lastCall'.err = "none" /\ objs' = objs)]_vars

\* startFileWatcher() has been called on a disposed context
C7_Witness ==
    /\ lastCall.op = "startFileWatcher"
    /\ lastCall.prev = "disposed"
    /\ objs[lastCall.h].disposed

Released(o) ==
    o.disposed /\ ~o.watching /\ ~o.cached /\ ~o.cleanup /\ ~o.subscribed

\* C8: dispose() leaves the watcher stopped, the cache cleared, the cleanup
\* interval released and no subscription; a repeat call does not throw and
\* leaves the state of the first call.
C8_DisposeIdempotent ==
    /\ [](lastCall.op = "dispose" => (lastCall.err = "none" /\ Released(objs[lastCall.h])))
    /\ [][(lastCall'.op = "dispose" /\ objs[lastCall'.h].disposed)
            => (lastCall'.err = "none" /\ objs' = objs)]_vars

\* dispose() has been called on a context that was disposed already
C8_Witness ==
    /\ lastCall.op = "dispose"
    /\ lastCall.prev = "disposed"
    /\ Released(objs[lastCall.h])

\* The calls that passed both early returns and have not yet finalized or
\* failed: those awaiting line 296, and those in the background fetch of a
\* first visit (no snapshot was applied).
InTransition ==
    {c \in DOMAIN calls :
        \/ calls[c].pc = "awaitAll"
        \/ calls[c].pc = "fetch" /\ calls[c].targetSnapshot = NoSnapshot}

BackendRequested == {c \in DOMAIN calls : calls[c].switch # "none"}
SnapshotSaves == {c \in DOMAIN calls : calls[c].save # "none"}

\* C9: while isContextSwitching is true a further switchContext call is a
\* no-op: it requests no backend switch, saves no snapshot and changes no
\* state; as long as the flag is up exactly one call is in transition, and no
\* step taken with the flag up adds a backend request or a save.
C9_OverlappingSwitchIsNoOp ==
    /\ [](isContextSwitching => Cardinality(InTransition) = 1)
    /\ [][isContextSwitching =>
            /\ BackendRequested' = BackendRequested
            /\ SnapshotSaves' = SnapshotSaves
            /\ Len(calls') > Len(calls) =>
                 /\ UNCHANGED <<rendererContextId, isContextSwitching,
                                targetContextId, view, snapshots, backVars>>
                 /\ calls'[Len(calls')].pc = "returned"
                 /\ SubSeq(calls', 1, Len(calls)) = calls]_vars

\* A call came back at the guard while the first one was still awaiting its
\* backend switch.
C9_Witness ==
    /\ isContextSwitching
    /\ \E c, d \in DOMAIN calls :
          /\ c < d
          /\ calls[c].pc = "awaitAll" /\ calls[c].switch = "pending"
          /\ calls[d].pc = "returned" /\ calls[d].switch = "none"
          /\ calls[d].target # calls[d].from

\* C10: whenever isContextSwitching is true it is eventually false again,
\* given that every pending asynchronous call eventually resolves or rejects.
C10_SwitchingEventuallyCleared == isContextSwitching ~> ~isContextSwitching

\* A first visit whose background fetch rejected has finalized; another call
\* was ended by the rejection of its backend switch.
C10_Witness ==
    /\ ~isContextSwitching
    /\ \E c, d \in DOMAIN calls :
          /\ calls[c].pc = "returned" /\ calls[c].fetch = "rejected"
          /\ calls[c].targetSnapshot = NoSnapshot
          /\ calls[d].pc = "returned" /\ calls[d].switch = "rejected"

\* The step in which the background fetch of call c is rejected.
FetchRejectedStep(c) ==
    /\ c \in DOMAIN calls
    /\ calls[c].fetch = "pending"
    /\ calls'[c].fetch = "rejected"

\* The step in which the background fetch of call c resolves.
FetchResolvedStep(c) ==
    /\ c \in DOMAIN calls
    /\ calls[c].fetch = "pending"
    /\ calls'[c].fetch = "resolved"

\* no projects, no repository groups, no tabs, exactly the empty default pane
IsEmptyView(v) ==
    /\ v.projects = {}
    /\ v.repositoryGroups = {}
    /\ v.openTabs = <<>>
    /\ v.activeTabId = NoneId
    /\ v.paneLayout.panes = <<DefaultPane>>
    /\ v.paneLayout.focusedPaneId = "pane-default"

C12_EmptyFetchKeepsSnapshot ==
    [][\A c \in 1..MaxCalls :
          (/\ FetchResolvedStep(c)
           /\ calls[c].targetSnapshot # NoSnapshot
           /\ \/ calls[c].targetSnapshot.projects # {}
              \/ calls[c].targetSnapshot.repositoryGroups # {}
           /\ calls'[c].fresh.projects = {}
           /\ calls'[c].fresh.repositoryGroups = {}) =>
             /\ view' = view
             /\ rendererContextId' = rendererContextId
             /\ calls'[c].log = "warn"]_vars

\* The snapshot of a populated window was applied, the fetch came back empty,
\* and the snapshot's projects and tabs are still shown.
C12_Witness ==
    \E c \in DOMAIN calls :
        /\ calls[c].fetch = "resolved"
        /\ calls[c].log = "warn"
        /\ calls[c].targetSnapshot # NoSnapshot
        /\ calls[c].fresh.projects = {}
        /\ view.projects = calls[c].targetSnapshot.projects
        /\ view.projects # {}
        /\ view.openTabs = calls[c].targetSnapshot.openTabs
        /\ view.openTabs # <<>>
        /\ view.paneLayout = calls[c].targetSnapshot.paneLayout

\* C13: once a cached snapshot has been applied, the rejection of the
\* background fetch changes nothing in the store: what the view shows stays.
C13_FetchFailureKeepsAppliedSnapshot ==
    [][\A c \in 1..MaxCalls :
          FetchRejectedStep(c) /\ calls[c].targetSnapshot # NoSnapshot =>
             /\ view' = view
             /\ rendererContextId' = rendererContextId
             /\ isContextSwitching' = isContextSwitching
             /\ targetContextId' = targetContextId]_vars

\* The fetch was rejected after a populated snapshot was applied, and the
\* snapshot's projects, groups and tabs are what the view shows.
C13_Witness ==
    \E c \in DOMAIN calls :
        /\ calls[c].fetch = "rejected"
        /\ calls[c].targetSnapshot # NoSnapshot
        /\ view.projects = calls[c].targetSnapshot.projects
        /\ view.repositoryGroups = calls[c].targetSnapshot.repositoryGroups
        /\ view.openTabs = calls[c].targetSnapshot.openTabs
        /\ view.projects # {}
        /\ view.openTabs # <<>>
        /\ rendererContextId = calls[c].target

\* The step in which the backend's failure answer reaches call c while it
\* awaits line 296.
BackendFailureStep(c) ==
    /\ c \in DOMAIN calls
    /\ calls[c].pc = "awaitAll"
    /\ calls[c].switch = "pending"
    /\ calls'[c].switch = "rejected"

\* C18: when the backend answers the switch request with a failure,
\* switchContext returns normally (the error is logged), activeContextId is
\* still the context the call started from, the view is untouched, and the
\* store is idle with targetContextId null; up to that answer the call has
\* changed nothing in the view either.
C18_BackendFailureLeavesViewAlone ==
    /\ [][\A c \in 1..MaxCalls :
            BackendFailureStep(c) =>
               /\ calls'[c].pc = "returned"
               /\ calls'[c].log = "error"
               /\ rendererContextId' = rendererContextId
               /\ rendererContextId' = calls[c].from
               /\ view' = view
               /\ ~isContextSwitching'
               /\ targetContextId' = NoneId]_vars
    /\ [][view' # view \/ rendererContextId' # rendererContextId =>
            \E c \in DOMAIN calls :
                /\ calls[c].switch = "resolved" \/ calls'[c].switch = "resolved"
                /\ calls'[c].pc \in {"fetch", "returned"}
                /\ calls'[c].pc # calls[c].pc]_vars

\* A switch away from a populated window was refused by the backend: the
\* window is idle on the context it was on, showing what it showed.
C18_Witness ==
    /\ ~isContextSwitching
    /\ targetContextId = NoneId
    /\ \E c \in DOMAIN calls :
          /\ calls[c].pc = "returned"
          /\ calls[c].switch = "rejected"
          /\ calls[c].save = "resolved" /\ calls[c].load = "resolved"
          /\ calls[c].log = "error"
          /\ rendererContextId = calls[c].from
          /\ view.projects # {}
          /\ view.openTabs = calls[c].snap.openTabs
          /\ view.paneLayout = calls[c].snap.paneLayout
          /\ view.projects = calls[c].snap.projects

\* The contexts of id whose watcher runs, among the objects o.
LiveWatchers(o, id) == {h \in DOMAIN o : o[h].id = id /\ o[h].watching}

\* C15: the connect handler's context id is a function of the host; when a
\* context of that id is registered it is disposed and removed before the new
\* one is constructed, registered and started, so that neither between two
\* handlers nor between two statements of the connect handler do two contexts
\* of one host have a running watcher.
C15_ReconnectReplacesContext ==
    /\ \A id \in SshIds : Cardinality(LiveWatchers(objs, id)) <= 1
    /\ started /\ Len(objs) < MaxObjects =>
          \A host \in Hosts :
              LET steps == SshConnectSteps(RegistryValue, host)
              IN \A i \in DOMAIN steps :
                    /\ Cardinality(LiveWatchers(steps[i].objs, SshId(host))) <= 1
                    /\ has(RegistryValue, SshId(host)) =>
                          /\ steps[i].objs[contexts[SshId(host)]].disposed
                          /\ ~has(steps[1], SshId(host))
    /\ lastCall.op = "ssh:connect" /\ lastCall.h > 0 =>
          /\ lastCall.err = "none"
          /\ lastCall.id = SshId(connectedHost)
          /\ contexts[lastCall.id] = lastCall.h
          /\ objs[lastCall.h].watching
          /\ \A h \in DOMAIN objs :
                objs[h].id = lastCall.id /\ h # lastCall.h => objs[h].disposed

\* A second connect to a host has returned: the context of the first
\* connection is disposed, the new one is registered, active and watching.
C15_Witness ==
    /\ lastCall.op = "ssh:connect" /\ lastCall.err = "none"
    /\ lastCall.prev = lastCall.id
    /\ activeContextId = lastCall.id
    /\ \E h \in DOMAIN objs :
          /\ h # lastCall.h
          /\ objs[h].id = lastCall.id
          /\ objs[h].disposed
    /\ contexts[lastCall.id] = lastCall.h
    /\ objs[lastCall.h].watching

\* The context whose transport ssh:disconnect closes.
DisconnectedContextId == IF connectedHost = NoneId THEN NoneId ELSE SshId(connectedHost)

\* The step is a return of the ssh:disconnect handler.
DisconnectStep == lastCall'.op = "ssh:disconnect" /\ lastCall' # lastCall

\* C16: ssh:disconnect, when the disconnected context is the active one,
\* switches to 'local' before destroying it and leaves forwarding on local;
\* when the disconnected context is not the active one, it leaves
\* activeContextId, the contexts map and every watcher as they were.
C16_DisconnectFollowsDisconnectedContext ==
    [][DisconnectStep /\ connectedHost # NoneId =>
          IF DisconnectedContextId = activeContextId
          THEN /\ activeContextId' = LocalId
               /\ DisconnectedContextId \notin DOMAIN contexts'
               /\ objs'[contexts[DisconnectedContextId]].disposed
               /\ objs'[contexts'[LocalId]].watching
               /\ \A h \in DOMAIN objs' : objs'[h].subscribed <=> h = contexts'[LocalId]
               /\ LET steps == SshDisconnectSteps(RegistryValue)
                  IN /\ steps[1].active = LocalId
                     /\ has(steps[1], DisconnectedContextId)
          ELSE UNCHANGED <<activeContextId, contexts>> /\ Watching' = Watching]_vars

\* What the handler does: it goes by the id of the active context.  With an
\* ssh context active it switches to 'local', destroys that context and
\* leaves forwarding on local; with 'local' active it touches nothing.
C16_DisconnectFollowsActiveId ==
    [][DisconnectStep =>
          IF IsSshId(activeContextId)
          THEN /\ activeContextId' = LocalId
               /\ activeContextId \notin DOMAIN contexts'
               /\ objs'[contexts[activeContextId]].disposed
               /\ objs'[contexts'[LocalId]].watching
               /\ \A h \in DOMAIN objs' : objs'[h].subscribed <=> h = contexts'[LocalId]
               /\ LET steps == SshDisconnectSteps(RegistryValue)
                  IN /\ steps[1].active = LocalId
                     /\ has(steps[1], activeContextId)
          ELSE UNCHANGED <<activeContextId, contexts>> /\ Watching' = Watching]_vars

\* ssh:disconnect has destroyed the active context of one host while the
\* context of the host that was connected is still registered, not disposed.
C16_Witness ==
    /\ lastCall.op = "ssh:disconnect"
    /\ lastCall.err = "none"
    /\ IsSshId(lastCall.prev)
    /\ lastCall.prev \notin DOMAIN contexts
    /\ activeContextId = LocalId
    /\ connectedHost = NoneId
    /\ \E id \in SshIds \ {lastCall.prev} :
          /\ id \in DOMAIN contexts
          /\ ~objs[contexts[id]].disposed

HandlerOps ==
    {"context:list", "context:getActive", "context:switch",
     "ssh:connect", "ssh:disconnect", "ssh:test"}

ErrorMessages ==
    {"NotFoundError", "DuplicateContextError", "PermanentContextError",
     "TransportError", "RegistryError", "RewireError"}

IsSuccess(r) == DOMAIN r = {"success", "data"} /\ r.success = TRUE
IsFailure(r) ==
    DOMAIN r = {"success", "error"} /\ r.success = FALSE /\ r.error \in ErrorMessages

\* C17: whatever a control-channel handler (list, getActive, switch, connect,
\* disconnect, test) meets, a throw of the registry, of the transport or of
\* the rewire callback included, what it returns is {success: true, data} or
\* {success: false, error}; it returns the failure exactly when something
\* threw, and nothing is thrown to the caller.
C17_HandlersAnswerUniformly ==
    /\ response = NoResponse \/ IsSuccess(response) \/ IsFailure(response)
    /\ lastCall.op \in HandlerOps =>
          /\ response # NoResponse
          /\ IsSuccess(response) <=> lastCall.err = "none"
          /\ IsFailure(response) => response.error = lastCall.err

\* context:switch has switched the registry, its rewire callback threw, and
\* the handler answered {success: false, error}.
C17_Witness ==
    /\ lastCall.op = "context:switch"
    /\ lastCall.err = "RewireError"
    /\ activeContextId = lastCall.id
    /\ lastCall.prev # lastCall.id
    /\ IsFailure(response)

\* The contexts whose watcher's file-change and todo-change events are
\* forwarded.
Forwarding == {h \in DOMAIN objs : objs[h].subscribed}

SurvivingPanes ==
    SelectSeq(pure.snapshot.paneLayout.panes,
              LAMBDA pane : FilterTabs(pane.tabs, pure.freshProjects,
                                       WorktreeIds(pure.freshRepoGroups)) # <<>>)

\* C14: whatever the snapshot and the fresh lists, the layout validateSnapshot
\* returns has at least one pane, and its focusedPaneId is the id of one of
\* the panes it returns.
C14_ValidatedLayoutHasFocusedPane ==
    (pure.fn = "validateSnapshot" /\ pure.done) =>
        LET layout == pure.result.paneLayout
        IN /\ Len(layout.panes) >= 1
           /\ \E i \in DOMAIN layout.panes : layout.panes[i].id = layout.focusedPaneId

\* Every pane of the snapshot lost its tabs: the default pane stands in.
C14_Witness ==
    /\ pure.fn = "validateSnapshot" /\ pure.done
    /\ Len(pure.snapshot.paneLayout.panes) = 2
    /\ pure.snapshot.paneLayout.panes[1].tabs = <<SessionTab>>
    /\ SurvivingPanes = <<>>
    /\ pure.result.paneLayout.panes = <<DefaultPane>>
    /\ pure.result.paneLayout.focusedPaneId = "pane-default"

\* The fields of the view a snapshot carries (lines 187-215).
CapturedFields ==
    {"projects", "selectedProjectId", "repositoryGroups", "selectedRepositoryId",
     "selectedWorktreeId", "viewMode", "sessions", "selectedSessionId",
     "sessionsCursor", "sessionsHasMore", "sessionsTotalCount", "pinnedSessionIds",
     "notifications", "unreadCount", "openTabs", "activeTabId", "selectedTabIds",
     "activeProjectId", "paneLayout", "sidebarCollapsed"}

TransientFields == {"projectsLoading", "projectsError"}

C21_SwitchToActiveIsNoOp ==
    /\ [](\A c \in DOMAIN calls :
             calls[c].target = calls[c].from =>
                 /\ calls[c].pc = "returned"
                 /\ calls[c].save = "none" /\ calls[c].load = "none"
                 /\ calls[c].switch = "none" /\ calls[c].fetch = "none")
    /\ [][(Len(calls') > Len(calls)
             /\ calls'[Len(calls')].target = rendererContextId) =>
                /\ UNCHANGED <<rendererContextId, isContextSwitching,
                               targetContextId, view, snapshots, backVars>>
                /\ SubSeq(calls', 1, Len(calls)) = calls]_vars

\* After a completed switch to the remote context, with no switch under way,
\* switchContext was called with the remote context again.
C21_Witness ==
    /\ ~isContextSwitching
    /\ rendererContextId = SshId("h1")
    /\ Len(calls) = 2
    /\ calls[1].pc = "returned" /\ calls[1].fetch = "resolved"
    /\ calls[2].target = SshId("h1") /\ calls[2].from = SshId("h1")
    /\ calls[2].pc = "returned" /\ calls[2].switch = "none"

\* The step in which the three requests of call c have all resolved and the
\* call goes on to its background fetch.
AllResolvedStep(c) ==
    /\ c \in DOMAIN calls
    /\ calls[c].pc = "awaitAll"
    /\ calls'[c].pc = "fetch"

\* Call c has applied a cached snapshot and its background fetch is still out.
OptimisticallyApplied(c) ==
    /\ c \in DOMAIN calls
    /\ calls[c].pc = "fetch" /\ calls[c].fetch = "pending"
    /\ calls[c].targetSnapshot # NoSnapshot

\* C22: when a snapshot was loaded for the target and the backend switch
\* succeeded, the very step that ends the wait applies the snapshot, makes the
\* target the active context and returns to idle, with the background fetch
\* still pending; the store then stays so for as long as nothing else happens.
C22_SnapshotAppliedBeforeFetch ==
    [][\A c \in 1..MaxCalls :
          (AllResolvedStep(c) /\ calls'[c].targetSnapshot # NoSnapshot) =>
              /\ calls'[c].switch = "resolved"
              /\ calls'[c].fetch = "pending"
              /\ rendererContextId' = calls[c].target
              /\ ~isContextSwitching'
              /\ targetContextId' = NoneId
              /\ \A f \in DOMAIN SnapshotApplied(calls'[c].targetSnapshot) :
                     view'[f] = calls'[c].targetSnapshot[f]]_vars

\* Back on the local context with its snapshot shown, idle, the fetch out.
C22_Witness ==
    /\ OptimisticallyApplied(2)
    /\ rendererContextId = LocalId /\ calls[2].target = LocalId
    /\ ~isContextSwitching
    /\ view.projects = {"p1"}
    /\ view.openTabs = <<SessionTab, DashboardTab>>

\* C23 (as claimed): every step of the front end that moves activeContextId
\* away from a context leaves, under that context's id, a saved snapshot of it.
C23_EveryTransitionSavesOutgoing ==
    [][rendererContextId' # rendererContextId =>
          /\ snapshots'[rendererContextId] # NoSnapshot
          /\ snapshots'[rendererContextId].metadata.contextId = rendererContextId]_vars

\* C23 (what connectSsh and disconnectSsh do): the step that moves
\* activeContextId clears the outgoing context's data from the view and
\* writes nothing to the snapshot storage.
C23_ConnectionTransitionsSaveNothing ==
    [][rendererContextId' # rendererContextId =>
          /\ snapshots' = snapshots
          /\ view' = Spread(view, ConnectionReset)]_vars

\* The window in use was connected to the remote host: its projects and tabs
\* are gone from the view and no snapshot of the local context exists.
C23_Witness ==
    /\ rendererContextId = SshId("h1")
    /\ \E k \in DOMAIN sshCalls :
          sshCalls[k].op = "connect" /\ sshCalls[k].pc = "returned"
    /\ connection.state = "connected"
    /\ view.sessions = <<"s1">>
    /\ view.projects = {} /\ view.openTabs = <<>>
    /\ snapshots[LocalId] = NoSnapshot

\* Two configurations that differ in the password and in nothing else.
OnlyPasswordDiffers(c1, c2) ==
    /\ c1.password # c2.password
    /\ \A f \in DOMAIN c1 \ {"password"} : c1[f] = c2[f]

\* Every profile written so far: in the store, on its way to the main
\* process, and in the main process's configuration.
WrittenProfiles ==
    ({connection.lastSshConfig, lastConnection}
        \cup {ipc[i].config : i \in DOMAIN ipc}
        \cup {sshCalls[k].saved : k \in DOMAIN sshCalls}
        \cup {sshCalls[k].persisted : k \in DOMAIN sshCalls}) \ {NoConfig}

\* C24: no profile written through the save-last-connection path has a
\* password field, and two connects whose configurations differ only in the
\* password keep the same profile in the store and have the same profile
\* written by the save handler.
C24_SavedProfileHasNoPassword ==
    /\ \A p \in WrittenProfiles : "password" \notin DOMAIN p
    /\ \A k, j \in DOMAIN sshCalls :
          (/\ sshCalls[k].op = "connect" /\ sshCalls[j].op = "connect"
           /\ OnlyPasswordDiffers(sshCalls[k].config, sshCalls[j].config)) =>
              /\ (sshCalls[k].saved # NoConfig /\ sshCalls[j].saved # NoConfig) =>
                     sshCalls[k].saved = sshCalls[j].saved
              /\ (sshCalls[k].persisted # NoConfig /\ sshCalls[j].persisted # NoConfig) =>
                     sshCalls[k].persisted = sshCalls[j].persisted

\* Two connects with different passwords have both been saved and persisted.
C24_Witness ==
    /\ Len(sshCalls) = 2
    /\ sshCalls[1].op = "connect" /\ sshCalls[2].op = "connect"
    /\ OnlyPasswordDiffers(sshCalls[1].config, sshCalls[2].config)
    /\ sshCalls[1].persisted # NoConfig /\ sshCalls[2].persisted # NoConfig
    /\ sshCalls[1].saved = sshCalls[2].saved
    /\ lastConnection = sshCalls[2].persisted
    /\ connection.lastSshConfig.host = "h1"

\* C25: whatever calls were made on a cache of capacity maxSize >= 1, it
\* holds at most maxSize entries, one per path; and a set of a path already
\* cached leaves the size as it was, with that path's entry replaced.
C25_CacheSizeBounded ==
    /\ size(cache) <= maxSize
    /\ Cardinality(PathsOf(cache)) = size(cache)
    /\ (cacheLog.op = "set" /\ cacheLog.path \in PathsOf(cacheLog.before)) =>
          /\ size(cache) = size(cacheLog.before)
          /\ PathsOf(cache) = PathsOf(cacheLog.before)

\* A full cache was given a path it already held, with a new mtime.
C25_Witness ==
    /\ maxSize = 2
    /\ cacheLog.op = "set"
    /\ size(cacheLog.before) = 2
    /\ \E i \in DOMAIN cacheLog.before :
          /\ cacheLog.before[i].path = cacheLog.path
          /\ cacheLog.before[i].mtimeMs = 1
    /\ \E i \in DOMAIN cache :
          cache[i].path = cacheLog.path /\ cache[i].mtimeMs = 2
    /\ size(cache) = 2

\* The set just made added a new path to a cache that was at capacity.
SetAtCapacity ==
    /\ cacheLog.op = "set"
    /\ cacheLog.path \notin PathsOf(cacheLog.before)
    /\ size(cacheLog.before) = maxSize

Evicted == PathsOf(cacheLog.before) \ PathsOf(cache)

\* The cached path whose last use (set, or get that hit) is the oldest.
LeastRecentlyUsed(c, used) ==
    {p \in PathsOf(c) : \A q \in PathsOf(c) : used[p] <= used[q]}

\* C26: a set that adds a new path to a cache at capacity evicts exactly one
\* entry, the one whose last use -- a set, or a get that hit -- is the oldest;
\* every other entry stays.
C26_EvictsLeastRecentlyUsed ==
    SetAtCapacity =>
        /\ Cardinality(Evicted) = 1
        /\ Evicted = LeastRecentlyUsed(cacheLog.before, cacheLog.usedBefore)
        /\ PathsOf(cache) = (PathsOf(cacheLog.before) \ Evicted) \cup {cacheLog.path}

\* The entry evicted was set after one that stayed: the older entry had been
\* read since.
C26_Witness ==
    /\ SetAtCapacity
    /\ \E e \in Evicted, p \in PathsOf(cacheLog.before) \ Evicted :
          /\ cacheLog.lastSet[p] < cacheLog.lastSet[e]
          /\ cacheLog.usedBefore[p] > cacheLog.usedBefore[e]

Running == {h \in DOMAIN objs : objs[h].watching}

C30_RefetchNotVersionGuarded ==
    [][\A c \in 1..MaxCalls :
          (/\ FetchResolvedStep(c)
           /\ calls[c].targetSnapshot # NoSnapshot
           /\ ~EmptyFetchGuard(calls[c].targetSnapshot, calls'[c].fresh.projects,
                               calls'[c].fresh.repositoryGroups)) =>
              /\ rendererContextId' = rendererContextId
              /\ isContextSwitching' = isContextSwitching
              /\ view' = Spread(view,
                                validateSnapshot(calls[c].targetSnapshot,
                                                 calls'[c].fresh.projects,
                                                 calls'[c].fresh.repositoryGroups))]_vars

\* The switch to the remote context was overtaken by a switch back to the
\* local one, which completed; the remote refetch then arrived: the local
\* context is active and the view shows the remote context's tab.
C30_Witness ==
    /\ Len(calls) = 2
    /\ calls[1].target = SshId("h1") /\ calls[1].fetch = "resolved"
    /\ calls[1].targetSnapshot # NoSnapshot
    /\ calls[2].target = LocalId /\ calls[2].fetch = "resolved"
    /\ calls[2].targetSnapshot # NoSnapshot
    /\ calls[2].targetSnapshot.openTabs = <<SessionTab, DashboardTab>>
    /\ rendererContextId = LocalId
    /\ ~isContextSwitching
    /\ view.openTabs = <<RemoteTab>>
    /\ view.projects = calls[1].fresh.projects

\* A call of the switch or of the connect handler has just returned
\* {success: false, error}.
FailedSwitchOrConnect ==
    /\ lastCall.op \in {"context:switch", "ssh:connect"}
    /\ IsFailure(response)

\* C31: whenever the switch or the connect handler returns {success: false},
\* the registry's active context id and its set of registered contexts are
\* what they were before the call.
C31_FailureLeavesRegistryUnchanged ==
    [][FailedSwitchOrConnect' =>
          /\ activeContextId' = activeContextId
          /\ DOMAIN contexts' = DOMAIN contexts]_vars

\* What the two handlers do: a failure raised by registry.switch (unknown
\* id) or by connectionManager.connect comes before any change of the
\* registry and leaves it as it was; a throw of a later statement returns
\* the same failure shape with the changes made so far kept.
C31_EarlyFailureLeavesRegistryUnchanged ==
    [][(FailedSwitchOrConnect' /\ lastCall'.err \in {"NotFoundError", "TransportError"}) =>
          /\ activeContextId' = activeContextId
          /\ contexts' = contexts]_vars

\* context:switch to a registered context other than the active one has
\* answered {success: false} after the registry switched to it.
C31_Witness ==
    /\ FailedSwitchOrConnect
    /\ lastCall.op = "context:switch"
    /\ lastCall.err = "RewireError"
    /\ lastCall.prev # lastCall.id
    /\ activeContextId = lastCall.id

\* The session tabs of a tab list that name a project.
ProjectTabs(tabs) ==
    {i \in DOMAIN tabs : tabs[i].type = "session" /\ tabs[i].projectId # NoneId}

\* The project and worktree ids of the fresh lists handed to validateSnapshot.
FreshIds == pure.freshProjects \cup WorktreeIds(pure.freshRepoGroups)

\* Every session tab of the list names a fresh project or worktree, and every
\* selected tab id is the id of a tab of the list.
TabsReferToFresh(tabs, selectedTabIds) ==
    /\ \A i \in ProjectTabs(tabs) : tabs[i].projectId \in FreshIds
    /\ \A j \in DOMAIN selectedTabIds : selectedTabIds[j] \in TabIdsOf(tabs)

\* What validateSnapshot guarantees of tabs and selections: the remaining
\* session tabs, at top level and in every pane, name fresh projects or
\* worktrees, the selected tab ids are ids of remaining tabs, and the
\* selected project, selected worktree and active project are none or fresh.
ValidatedRefersToFresh(r) ==
    /\ TabsReferToFresh(r.openTabs, r.selectedTabIds)
    /\ \A i \in DOMAIN r.paneLayout.panes :
          TabsReferToFresh(r.paneLayout.panes[i].tabs,
                           r.paneLayout.panes[i].selectedTabIds)
    /\ r.selectedProjectId \in {NoneId} \cup pure.freshProjects
    /\ r.selectedWorktreeId \in {NoneId} \cup WorktreeIds(pure.freshRepoGroups)
    /\ r.activeProjectId \in {NoneId} \cup FreshIds

ActiveTabFallsBack(storedActiveTabId, tabs, activeTabId) ==
    /\ activeTabId \in {NoneId} \cup TabIdsOf(tabs)
    /\ (storedActiveTabId # NoneId /\ storedActiveTabId \notin TabIdsOf(tabs)) =>
          /\ activeTabId = FirstTabId(tabs)
          /\ activeTabId = NoneId <=> tabs = <<>>

\* C33: in the result of validateSnapshot the top-level activeTabId and each
\* pane's activeTabId is none or the id of a remaining tab of the same list;
\* a stored active tab that was dropped is replaced by the first remaining
\* tab, and by none only when no tab remains.
C33_ActiveTabIsRemainingTab ==
    (pure.fn = "validateSnapshot" /\ pure.done) =>
        /\ ActiveTabFallsBack(pure.snapshot.activeTabId, pure.result.openTabs,
                              pure.result.activeTabId)
        /\ \A i \in DOMAIN pure.result.paneLayout.panes :
              LET pane == pure.result.paneLayout.panes[i]
              IN /\ pane.activeTabId \in {NoneId} \cup TabIdsOf(pane.tabs)
                 /\ \A j \in DOMAIN pure.snapshot.paneLayout.panes :
                       pure.snapshot.paneLayout.panes[j].id = pane.id =>
                          ActiveTabFallsBack(
                              pure.snapshot.paneLayout.panes[j].activeTabId,
                              pane.tabs, pane.activeTabId)

\* The stored active tab t1, at top level and in the second pane, was a
\* session tab of a project that is gone; the dashboard tab t2 after it
\* remained and is the active tab now.
C33_Witness ==
    /\ pure.fn = "validateSnapshot" /\ pure.done
    /\ pure.snapshot.activeTabId = "t1"
    /\ TabIdsOf(pure.snapshot.openTabs) = {"t1", "t2"}
    /\ pure.result.openTabs = <<DashboardTab>>
    /\ pure.result.activeTabId = "t2"
    /\ Len(pure.snapshot.paneLayout.panes) = 2
    /\ pure.snapshot.paneLayout.panes[2].activeTabId = "t1"
    /\ Len(pure.result.paneLayout.panes) = 2
    /\ pure.result.paneLayout.panes[2].tabs = <<DashboardTab>>
    /\ pure.result.paneLayout.panes[2].activeTabId = "t2"

\* No switchContext, connectSsh or disconnectSsh call is in flight, no request
\* or response of theirs is under way, and the window is not switching.
Quiescent ==
    /\ ~isContextSwitching
    /\ \A c \in DOMAIN calls :
          /\ calls[c].pc = "returned"
          /\ "pending" \notin {calls[c].save, calls[c].load, calls[c].switch}
    /\ \A k \in DOMAIN sshCalls : sshCalls[k].pc = "returned"
    /\ wire = <<>>

\* C35: in every quiescent state the window's activeContextId is the
\* registry's activeContextId, whatever the interleaving of switchContext,
\* connectSsh and disconnectSsh and whatever succeeded or failed.
C35_QuiescentSidesAgree ==
    (started /\ Quiescent) => rendererContextId = activeContextId

\* The backend switched for a switchContext call whose snapshot save was
\* rejected: the call has ended in its catch, everything has settled, and
\* the window still shows the context the registry has left.
C35_Witness ==
    /\ started /\ Quiescent
    /\ \E c \in DOMAIN calls :
          /\ calls[c].switch = "resolved" /\ calls[c].save = "rejected"
          /\ activeContextId = calls[c].target
          /\ rendererContextId = calls[c].from
    /\ rendererContextId # activeContextId

\* C34: in every reachable state of the window, isContextSwitching is true
\* exactly when targetContextId is set, and while it is true the target is
\* not the active context.
C34_SwitchingIffTargetAndTargetNotActive ==
    /\ isContextSwitching <=> targetContextId # NoneId
    /\ isContextSwitching => targetContextId # rendererContextId

\* What holds in every reachable state: the flag and the target are set and
\* cleared together.
C34_SwitchingIffTarget ==
    isContextSwitching <=> targetContextId # NoneId

\* A connectSsh call has made its host's context the active one while a
\* switchContext to that same context was still under way.
C34_Witness ==
    /\ isContextSwitching
    /\ targetContextId = rendererContextId
    /\ \E k \in DOMAIN sshCalls :
          /\ sshCalls[k].op = "connect" /\ sshCalls[k].pc = "returned"
          /\ SshId(sshCalls[k].config.host) = targetContextId
    /\ \E c \in DOMAIN calls : calls[c].pc # "returned" /\ calls[c].target = targetContextId

\* C36: switchContext never makes its target the window's active context
\* before the backend has acknowledged the switch: whenever a step of a
\* switchContext call changes activeContextId, it changes it to that call's
\* target and that call's backend switch request has been answered with success.
C36_ActiveFollowsBackendAck ==
    [][rendererContextId' # rendererContextId =>
          \E c \in DOMAIN calls :
             /\ calls'[c] # calls[c]
             /\ calls'[c].target = rendererContextId'
             /\ calls'[c].switch = "resolved"]_vars

\* A cached snapshot was applied and the target made active while the
\* background fetch is still under way; the backend switch had resolved.
C36_Witness ==
    \E c \in DOMAIN calls :
       /\ calls[c].pc = "fetch"
       /\ calls[c].targetSnapshot # NoSnapshot
       /\ calls[c].switch = "resolved"
       /\ calls[c].from # calls[c].target
       /\ rendererContextId = calls[c].target

\* C37: in every quiescent state of the window, connectionMode is 'ssh'
\* exactly when activeContextId names a remote context, and connectionMode
\* 'ssh' comes with connectionState 'connected', after any sequence of
\* connectSsh, disconnectSsh, setConnectionStatus and switchContext.
C37_ModeFollowsActiveContext ==
    Quiescent =>
        /\ connection.mode = "ssh" <=> IsSshId(rendererContextId)
        /\ connection.mode = "ssh" => connection.state = "connected"

\* After a connect, a switchContext to the local context has completed:
\* the window shows 'local', nothing is in flight, connectionMode is 'ssh'.
C37_Witness ==
    /\ Quiescent
    /\ rendererContextId = LocalId
    /\ connection.mode = "ssh" /\ connection.state = "connected"
    /\ \E c \in DOMAIN calls :
          /\ calls[c].target = LocalId /\ calls[c].from = SshId("h1")
          /\ calls[c].switch = "resolved" /\ calls[c].fetch = "resolved"
    /\ activeContextId = LocalId

\* C38: after a successful disconnect the registry holds no remote context
\* whose transport was closed: the context the disconnect handler destroys
\* is the one of the connection it closed, whatever connects and switches
\* came before.
C38_DisconnectDestroysClosedContext ==
    [][(DisconnectStep /\ connectedHost # NoneId /\ IsSuccess(response')) =>
          /\ DisconnectedContextId \notin DOMAIN contexts'
          /\ DOMAIN contexts \ DOMAIN contexts' \subseteq {DisconnectedContextId}]_vars

\* ssh:disconnect has returned success from the local context: no
\* connection is left and the remote context is still registered.
C38_Witness ==
    /\ lastCall.op = "ssh:disconnect"
    /\ IsSuccess(response)
    /\ lastCall.prev = LocalId
    /\ connectedHost = NoneId
    /\ DOMAIN contexts = {LocalId, SshId("h1")}
    /\ ~objs[contexts[SshId("h1")]].disposed

\* A refresh of the same project that was started after call k.
LaterRefreshStarted(k) ==
    \E j \in DOMAIN sessionCalls :
       /\ j > k
       /\ sessionCalls[j].op = "refresh" /\ sessionCalls[j].pc # "skipped"
       /\ sessionCalls[j].projectId = sessionCalls[k].projectId

\* C39: of overlapping refreshSessionsInPlace calls for one project, a
\* response is written to the store only if no later refresh of that project
\* was started before it arrived; the response of an older call is dropped
\* and leaves the store as it was.
C39_OnlyLatestRefreshApplied ==
    [][\A k \in DOMAIN sessionCalls :
          (/\ sessionCalls[k].op = "refresh" /\ sessionCalls[k].pc = "pending"
           /\ sessionCalls'[k].pc \in {"applied", "dropped"}) =>
             IF LaterRefreshStarted(k)
             THEN sessionCalls'[k].pc = "dropped" /\ view' = view
             ELSE /\ sessionCalls'[k].pc = "applied"
                  /\ view'.sessions = sessionCalls'[k].result.sessions]_vars

\* Two refreshes of the selected project overlapped; the response of the
\* first arrived after the second had started and was dropped, the response
\* of the second is what the store shows.
C39_Witness ==
    /\ Len(sessionCalls) >= 2
    /\ sessionCalls[1].op = "refresh" /\ sessionCalls[2].op = "refresh"
    /\ sessionCalls[1].projectId = sessionCalls[2].projectId
    /\ sessionCalls[1].pc = "dropped" /\ sessionCalls[2].pc = "applied"
    /\ sessionCalls[1].result # sessionCalls[2].result
    /\ view.sessions = sessionCalls[2].result.sessions

\* Every togglePinSession call has settled.
TogglesSettled == \A k \in DOMAIN sessionCalls : sessionCalls[k].pc # "pending"

PinnedIdSet == {view.pinnedSessionIds[i] : i \in DOMAIN view.pinnedSessionIds}

\* C40: once every togglePinSession call in flight has settled, the pinned
\* list shows exactly the toggles whose persistence call succeeded: a failed
\* toggle is undone and an overlapping successful toggle is not.
C40_PinsReflectPersistedToggles ==
    TogglesSettled => PinnedIdSet = pinnedSessions

\* Pinning s1 and pinning s2 overlapped; s2 was persisted, s1 was rejected,
\* and the rollback of s1 removed s2 from the list as well.
C40_Witness ==
    /\ TogglesSettled
    /\ Len(sessionCalls) = 2
    /\ sessionCalls[1].pc = "rejected" /\ sessionCalls[2].pc = "resolved"
    /\ sessionCalls[1].sessionId # sessionCalls[2].sessionId
    /\ pinnedSessions = {sessionCalls[2].sessionId}
    /\ view.pinnedSessionIds = <<>>

====
